---- MODULE Spec2Model ----
(***************************************************************************)
(* ccTalk host driver (cctalk-host.py): the integrity codec, the frame     *)
(* builder/parser, the transport exchange BillValidator.cmd and the        *)
(* address/mode scanner BillValidator.scan.                                *)
(*                                                                         *)
(* Bytes are integers 0..255, Python lists and bytes objects are           *)
(* sequences.  Python's None in a slot that otherwise holds a byte is      *)
(* NoneVal.  Times are in milliseconds.                                    *)
(***************************************************************************)
EXTENDS Integers, Sequences, FiniteSets, TLC

(***************************************************************************)
(* Bounds of the model.                                                    *)
(***************************************************************************)
MaxData == 2
MaxRespData == 2
MaxShortReads == 1
MaxPayloadLen == 12
MaxRecvLen == 5
MaxCrcLen == 3

NoneVal == -1
IndexError == -1

Modes == {"crc", "checksum"}

(***************************************************************************)
(* Integer helpers for the Python operators the code uses.                 *)
(***************************************************************************)
RECURSIVE Xor(_, _)
Xor(a, b) ==
  IF a = 0 THEN b
  ELSE IF b = 0 THEN a
  ELSE (((a % 2) + (b % 2)) % 2) + (2 * Xor(a \div 2, b \div 2))

RECURSIVE SumSeq(_)
SumSeq(s) == IF s = <<>> THEN 0 ELSE Head(s) + SumSeq(Tail(s))

Min(a, b) == IF a < b THEN a ELSE b

(* list.insert(i, x): an index past the end appends *)
ListInsert(l, i, x) ==
  IF i >= Len(l) THEN Append(l, x)
  ELSE SubSeq(l, 1, i) \o <<x>> \o SubSeq(l, i + 1, Len(l))

(* list.pop(i) for a 0-based index i >= 0: the list without that element *)
ListPop(l, i) == SubSeq(l, 1, i) \o SubSeq(l, i + 2, Len(l))

(* list.pop(-1) *)
ListPopLast(l) == SubSeq(l, 1, Len(l) - 1)

(* '%04x' % n: the hexadecimal digits of n, zero-padded to 4 digits *)
RECURSIVE HexDigits(_)
HexDigits(n) == IF n < 16 THEN <<n>> ELSE Append(HexDigits(n \div 16), (n % 16))

RECURSIVE ZeroPad(_, _)
ZeroPad(s, w) == IF Len(s) >= w THEN s ELSE ZeroPad(<<0>> \o s, w)

Format04x(n) == ZeroPad(HexDigits(n), 4)

(* int(s, 16) *)
RECURSIVE IntBase16(_)
IntBase16(s) ==
  IF s = <<>> THEN 0 ELSE (16 * IntBase16(SubSeq(s, 1, Len(s) - 1))) + s[Len(s)]

(***************************************************************************)
(* BillValidator.CRC_TABLE                                                 *)
(***************************************************************************)
CRC_TABLE ==
  <<
    0, 4129, 8258, 12387, 16516, 20645, 24774, 28903,
    33032, 37161, 41290, 45419, 49548, 53677, 57806, 61935,
    4657, 528, 12915, 8786, 21173, 17044, 29431, 25302,
    37689, 33560, 45947, 41818, 54205, 50076, 62463, 58334,
    9314, 13379, 1056, 5121, 25830, 29895, 17572, 21637,
    42346, 46411, 34088, 38153, 58862, 62927, 50604, 54669,
    13907, 9842, 5649, 1584, 30423, 26358, 22165, 18100,
    46939, 42874, 38681, 34616, 63455, 59390, 55197, 51132,
    18628, 22757, 26758, 30887, 2112, 6241, 10242, 14371,
    51660, 55789, 59790, 63919, 35144, 39273, 43274, 47403,
    23285, 19156, 31415, 27286, 6769, 2640, 14899, 10770,
    56317, 52188, 64447, 60318, 39801, 35672, 47931, 43802,
    27814, 31879, 19684, 23749, 11298, 15363, 3168, 7233,
    60846, 64911, 52716, 56781, 44330, 48395, 36200, 40265,
    32407, 28342, 24277, 20212, 15891, 11826, 7761, 3696,
    65439, 61374, 57309, 53244, 48923, 44858, 40793, 36728,
    37256, 33193, 45514, 41451, 53516, 49453, 61774, 57711,
    4224, 161, 12482, 8419, 20484, 16421, 28742, 24679,
    33721, 37784, 41979, 46042, 49981, 54044, 58239, 62302,
    689, 4752, 8947, 13010, 16949, 21012, 25207, 29270,
    46570, 42443, 38312, 34185, 62830, 58703, 54572, 50445,
    13538, 9411, 5280, 1153, 29798, 25671, 21540, 17413,
    42971, 47098, 34713, 38840, 59231, 63358, 50973, 55100,
    9939, 14066, 1681, 5808, 26199, 30326, 17941, 22068,
    55628, 51565, 63758, 59695, 39368, 35305, 47498, 43435,
    22596, 18533, 30726, 26663, 6336, 2273, 14466, 10403,
    52093, 56156, 60223, 64286, 35833, 39896, 43963, 48026,
    19061, 23124, 27191, 31254, 2801, 6864, 10931, 14994,
    64814, 60687, 56684, 52557, 48554, 44427, 40424, 36297,
    31782, 27655, 23652, 19525, 15522, 11395, 7392, 3265,
    61215, 65342, 53085, 57212, 44955, 49082, 36825, 40952,
    28183, 32310, 20053, 24180, 11923, 16050, 3793, 7920
  >>

(***************************************************************************)
(* BillValidator._crc_calculate_xmodem                                     *)
(***************************************************************************)
(* one iteration of the loop; IndexError when the table index is out of    *)
(* range                                                                   *)
crc_step_unmasked(crc, byte) ==
  LET idx == Xor(crc \div 256, byte)
  IN IF idx > 255 THEN IndexError ELSE Xor(crc * 256, CRC_TABLE[idx + 1])

crc_step_seven_bits(crc, byte) ==
  LET idx == Xor(crc \div 256, byte % 128)
  IN IF idx > 255 THEN IndexError
     ELSE (Xor(crc * 256, CRC_TABLE[idx + 1])) % 65536

crc_step(crc, byte) ==
  LET idx == Xor(crc \div 256, byte)
  IN IF idx > 255 THEN IndexError
     ELSE (Xor(crc * 256, CRC_TABLE[idx + 1])) % 65536

RECURSIVE crc_loop(_, _, _)
crc_loop(message, i, crc) ==
  IF crc = IndexError THEN IndexError
  ELSE IF i > Len(message) THEN crc
  ELSE crc_loop(message, i + 1, crc_step(crc, message[i]))

(* <<msb, lsb>>, or <<IndexError, IndexError>> when the loop raised *)
_crc_calculate_xmodem_lsb_first(message) ==
  LET crc == crc_loop(message, 1, 0)
  IN IF crc = IndexError THEN <<IndexError, IndexError>>
     ELSE LET s == Format04x(crc)
          IN <<IntBase16(SubSeq(s, Len(s) - 1, Len(s))),
               IntBase16(SubSeq(s, 1, Len(s) - 2))>>

_crc_calculate_xmodem_init_ffff(message) ==
  LET crc == crc_loop(message, 1, 65535)
  IN IF crc = IndexError THEN <<IndexError, IndexError>>
     ELSE LET s == Format04x(crc)
          IN <<IntBase16(SubSeq(s, 1, Len(s) - 2)),
               IntBase16(SubSeq(s, Len(s) - 1, Len(s)))>>

_crc_calculate_xmodem(message) ==
  LET crc == crc_loop(message, 1, 0)
  IN IF crc = IndexError THEN <<IndexError, IndexError>>
     ELSE LET s == Format04x(crc)
          IN <<IntBase16(SubSeq(s, 1, Len(s) - 2)),
               IntBase16(SubSeq(s, Len(s) - 1, Len(s)))>>

(***************************************************************************)
(* BillValidator._checksum_calculate                                       *)
(***************************************************************************)
_checksum_calculate_plain_sum(message) == SumSeq(message) % 256

_checksum_calculate_unmasked(message) == 256 - (SumSeq(message) % 256)

_checksum_calculate(message) ==
  LET total_sum == SumSeq(message) % 256
  IN (256 - total_sum) % 256

(***************************************************************************)
(* BillValidator._add_crc; <<IndexError>> when the CRC calculation raised  *)
(***************************************************************************)
_add_crc_appends_lsb(mode, l) ==
  IF mode = "crc"
  THEN LET c == _crc_calculate_xmodem(l)
       IN IF c[1] = IndexError THEN <<IndexError>>
          ELSE Append(Append(l, c[2]), c[1])
  ELSE Append(l, _checksum_calculate(l))

_add_crc(mode, l) ==
  IF mode = "crc"
  THEN LET c == _crc_calculate_xmodem(l)
       IN IF c[1] = IndexError THEN <<IndexError>>
          ELSE Append(ListInsert(l, 2, c[2]), c[1])
  ELSE Append(l, _checksum_calculate(l))

(***************************************************************************)
(* BillValidator._remove_crc: the stripped list l, the verdict crc_valid   *)
(* and whether an IndexError was raised on the way                         *)
(***************************************************************************)
_remove_crc_guard_3(mode, data) ==
  LET l0 == data
  IN IF mode = "crc"
     THEN IF Len(l0) < 3
          THEN [l |-> l0, crc_valid |-> FALSE, raised |-> FALSE]
          ELSE LET msb == l0[Len(l0)]
                   l1 == ListPopLast(l0)
               IN IF Len(l1) < 3
                  THEN [l |-> l1, crc_valid |-> FALSE, raised |-> TRUE]
                  ELSE LET lsb == l1[3]
                           l2 == ListPop(l1, 2)
                           calculated_crc == _crc_calculate_xmodem(l2)
                       IN IF calculated_crc[1] = IndexError
                          THEN [l |-> l2, crc_valid |-> FALSE, raised |-> TRUE]
                          ELSE [l |-> l2,
                                crc_valid |-> (calculated_crc = <<msb, lsb>>),
                                raised |-> FALSE]
     ELSE IF Len(l0) < 2
          THEN [l |-> l0, crc_valid |-> FALSE, raised |-> FALSE]
          ELSE LET received_checksum == l0[Len(l0)]
                   l1 == ListPopLast(l0)
                   calculated_checksum == _checksum_calculate(l1)
                   total_sum == (SumSeq(l1) + received_checksum) % 256
                   l2 == IF Len(l1) >= 3 THEN ListPop(l1, 2) ELSE l1
               IN [l |-> l2,
                   crc_valid |-> (calculated_checksum = received_checksum
                                  /\ total_sum = 0),
                   raised |-> FALSE]

_remove_crc_keeps_source(mode, data) ==
  LET l0 == data
  IN IF mode = "crc"
     THEN IF Len(l0) < 5
          THEN [l |-> l0, crc_valid |-> FALSE, raised |-> FALSE]
          ELSE LET msb == l0[Len(l0)]
                   l1 == ListPopLast(l0)
               IN IF Len(l1) < 3
                  THEN [l |-> l1, crc_valid |-> FALSE, raised |-> TRUE]
                  ELSE LET lsb == l1[3]
                           l2 == ListPop(l1, 2)
                           calculated_crc == _crc_calculate_xmodem(l2)
                       IN IF calculated_crc[1] = IndexError
                          THEN [l |-> l2, crc_valid |-> FALSE, raised |-> TRUE]
                          ELSE [l |-> l2,
                                crc_valid |-> (calculated_crc = <<msb, lsb>>),
                                raised |-> FALSE]
     ELSE IF Len(l0) < 2
          THEN [l |-> l0, crc_valid |-> FALSE, raised |-> FALSE]
          ELSE LET received_checksum == l0[Len(l0)]
                   l1 == ListPopLast(l0)
                   calculated_checksum == _checksum_calculate(l1)
                   total_sum == (SumSeq(l1) + received_checksum) % 256
                   l2 == l1
               IN [l |-> l2,
                   crc_valid |-> (calculated_checksum = received_checksum
                                  /\ total_sum = 0),
                   raised |-> FALSE]

_remove_crc(mode, data) ==
  LET l0 == data
  IN IF mode = "crc"
     THEN IF Len(l0) < 5
          THEN [l |-> l0, crc_valid |-> FALSE, raised |-> FALSE]
          ELSE LET msb == l0[Len(l0)]
                   l1 == ListPopLast(l0)
               IN IF Len(l1) < 3
                  THEN [l |-> l1, crc_valid |-> FALSE, raised |-> TRUE]
                  ELSE LET lsb == l1[3]
                           l2 == ListPop(l1, 2)
                           calculated_crc == _crc_calculate_xmodem(l2)
                       IN IF calculated_crc[1] = IndexError
                          THEN [l |-> l2, crc_valid |-> FALSE, raised |-> TRUE]
                          ELSE [l |-> l2,
                                crc_valid |-> (calculated_crc = <<msb, lsb>>),
                                raised |-> FALSE]
     ELSE IF Len(l0) < 2
          THEN [l |-> l0, crc_valid |-> FALSE, raised |-> FALSE]
          ELSE LET received_checksum == l0[Len(l0)]
                   l1 == ListPopLast(l0)
                   calculated_checksum == _checksum_calculate(l1)
                   total_sum == (SumSeq(l1) + received_checksum) % 256
                   l2 == IF Len(l1) >= 3 THEN ListPop(l1, 2) ELSE l1
               IN [l |-> l2,
                   crc_valid |-> (calculated_checksum = received_checksum
                                  /\ total_sum = 0),
                   raised |-> FALSE]

(***************************************************************************)
(* BillValidator.cmd: the base frame msg                                   *)
(***************************************************************************)
cmd_msg(mode, addr, hdr, payload) ==
  IF mode = "crc"
  THEN <<addr, Len(payload), hdr>> \o payload
  ELSE <<addr, Len(payload), 1, hdr>> \o payload

(***************************************************************************)
(* BillValidator.cmd: header and payload taken from the bytes read         *)
(* (resp_header, resp_data), the verdict of _remove_crc and whether the    *)
(* except branch ("Fallback parsing") ran                                  *)
(***************************************************************************)
cmd_parse(mode, resp) ==
  IF Len(resp) >= 5
  THEN LET r == _remove_crc(mode, resp)
       IN IF r.raised
          THEN [resp_header |-> IF Len(resp) >= 4 THEN resp[4] ELSE NoneVal,
                resp_data |-> IF Len(resp) >= 4
                              THEN SubSeq(resp, 5, Len(resp) - 1) ELSE <<>>,
                crc_valid |-> FALSE, fallback |-> TRUE]
          ELSE [resp_header |-> IF Len(r.l) >= 3 THEN r.l[3] ELSE NoneVal,
                resp_data |-> IF Len(r.l) > 3
                              THEN SubSeq(r.l, 4, Len(r.l)) ELSE <<>>,
                crc_valid |-> r.crc_valid, fallback |-> FALSE]
  ELSE [resp_header |-> NoneVal, resp_data |-> <<>>,
        crc_valid |-> FALSE, fallback |-> FALSE]

(* the value cmd returns: None, or {'header': ..., 'data': ...} *)
None == [none |-> TRUE, header |-> NoneVal, data |-> <<>>]

cmd_return_strict(m, resp, p) ==
  IF Len(resp) < Len(m) THEN None
  ELSE [none |-> FALSE, header |-> p.resp_header, data |-> p.resp_data]

cmd_return_no_guard(m, resp, p) ==
  [none |-> FALSE, header |-> p.resp_header, data |-> p.resp_data]

cmd_return(m, resp, p) ==
  IF Len(resp) <= Len(m) THEN None
  ELSE [none |-> FALSE, header |-> p.resp_header, data |-> p.resp_data]

(***************************************************************************)
(* BillValidator._ints_to_ascii: the characters as their codes, or NoneStr *)
(* for None                                                                *)
(***************************************************************************)
NoneStr == <<NoneVal>>

_ints_to_ascii(int_list) ==
  IF int_list = <<>> THEN NoneStr
  ELSE IF \A k \in 1..Len(int_list) :
            int_list[k] = 0 \/ (32 <= int_list[k] /\ int_list[k] <= 126)
       THEN int_list
       ELSE NoneStr

(* str.strip(): leading and trailing whitespace removed *)
Whitespace == {9, 10, 11, 12, 13, 28, 29, 30, 31, 32}

RECURSIVE StripLeft(_)
StripLeft(str) ==
  IF str # <<>> /\ Head(str) \in Whitespace THEN StripLeft(Tail(str)) ELSE str

RECURSIVE StripRight(_)
StripRight(str) ==
  IF str # <<>> /\ str[Len(str)] \in Whitespace
  THEN StripRight(SubSeq(str, 1, Len(str) - 1)) ELSE str

Strip(str) == StripRight(StripLeft(str))

(* "Unknown" *)
Unknown == <<85, 110, 107, 110, 111, 119, 110>>

(***************************************************************************)
(* parse_header159_response (bill validator) and parse_header229_response  *)
(* (coin acceptor): the value returned is (counter, events), here the      *)
(* record [counter, events]; an event is the dict the code appends.        *)
(***************************************************************************)
bill_event_map(result_a, result_b) ==
  CASE result_b = 0 -> "Master inhibit active"
    [] result_b = 1 -> "Bill returned from escrow"
    [] result_b = 2 -> "Invalid bill (due to validation fail)"
    [] result_b = 3 -> "Invalid bill (due to transport problem)"
    [] result_b = 4 -> "Inhibited bill (on serial)"
    [] result_b = 5 -> "Inhibited bill (on DIP switches)"
    [] result_b = 6 -> "Bill jammed in transport (unsafe mode)"
    [] result_b = 7 -> "Bill jammed in stacker"
    [] result_b = 8 -> "Bill pulled backwards"
    [] result_b = 9 -> "Bill tamper"
    [] result_b = 10 -> "Stacker OK"
    [] result_b = 11 -> "Stacker removed"
    [] result_b = 12 -> "Stacker inserted"
    [] result_b = 13 -> "Stacker faulty"
    [] result_b = 14 -> "Stacker full"
    [] result_b = 15 -> "Stacker jammed"
    [] result_b = 16 -> "Bill jammed in transport (safe mode)"
    [] result_b = 17 -> "Opto fraud detected"
    [] result_b = 18 -> "String fraud detected"
    [] result_b = 19 -> "Anti-string mechanism faulty"
    [] result_b = 20 -> "Barcode detected"
    [] result_b = 21 -> "Unknown bill type stacked"
    [] OTHER -> "Unknown event (A=" \o ToString(result_a) \o ", B="
                  \o ToString(result_b) \o ")"

bill_event_category_all_status(result_b) == "Status"

bill_event_category(result_b) ==
  IF result_b \in {0, 1, 4, 5, 10, 11, 12, 14, 20, 21} THEN "Status"
  ELSE IF result_b \in {2, 3} THEN "Reject"
  ELSE IF result_b \in {6, 7, 13, 15, 16, 19} THEN "Fatal Error"
  ELSE "Fraud Attempt"

(* the body of the loop after the pair is chosen: i is the loop index 0..4 *)
bill_event_escrow_as_credit(result_a, result_b, i) ==
  IF result_a = 0
  THEN [category |-> bill_event_category(result_b),
        type |-> bill_event_map(result_a, result_b),
        a |-> result_a, b |-> result_b, pair |-> i + 1]
  ELSE [category |-> "Credit",
        type |-> "Bill type " \o ToString(result_a)
                   \o " validated correctly and sent to cashbox/stacker",
        bill_type |-> result_a,
        a |-> result_a, b |-> result_b, pair |-> i + 1]

bill_event(result_a, result_b, i) ==
  IF result_a = 0
  THEN [category |-> bill_event_category(result_b),
        type |-> bill_event_map(result_a, result_b),
        a |-> result_a, b |-> result_b, pair |-> i + 1]
  ELSE IF result_a >= 1 /\ result_a <= 255
  THEN IF result_b = 0
       THEN [category |-> "Credit",
             type |-> "Bill type " \o ToString(result_a)
                        \o " validated correctly and sent to cashbox/stacker",
             bill_type |-> result_a,
             a |-> result_a, b |-> result_b, pair |-> i + 1]
       ELSE IF result_b = 1
       THEN [category |-> "Pending Credit",
             type |-> "Bill type " \o ToString(result_a)
                        \o " validated correctly and held in escrow",
             bill_type |-> result_a,
             a |-> result_a, b |-> result_b, pair |-> i + 1]
       ELSE [category |-> "Unknown",
             type |-> "A=" \o ToString(result_a) \o ", B="
                        \o ToString(result_b),
             a |-> result_a, b |-> result_b, pair |-> i + 1]
  ELSE [category |-> "Unknown",
        type |-> "A=" \o ToString(result_a) \o ", B=" \o ToString(result_b),
        a |-> result_a, b |-> result_b, pair |-> i + 1]

(* result_a, result_b of pass i: idx = 1 + (i * 2) counts from 0, so the   *)
(* bytes are resp_data[idx + 1] and resp_data[idx + 2] counting from 1     *)
bill_pair_needs_a_only(resp_data, i) ==
  LET idx == 1 + (i * 2)
  IN IF idx < Len(resp_data)
     THEN <<resp_data[idx + 1],
            IF idx + 1 < Len(resp_data) THEN resp_data[idx + 2] ELSE 0>>
     ELSE <<0, 0>>

bill_pair(resp_data, i) ==
  LET idx == 1 + (i * 2)
  IN IF idx + 1 < Len(resp_data)
     THEN <<resp_data[idx + 1], resp_data[idx + 2]>>
     ELSE <<0, 0>>

parse_header159_response_pads_empty(resp_data) ==
  [counter |-> IF Len(resp_data) < 1 THEN 0 ELSE resp_data[1],
   events |-> [k \in 1..5 |->
                 bill_event(bill_pair(resp_data, k - 1)[1],
                            bill_pair(resp_data, k - 1)[2], k - 1)]]

parse_header159_response(resp_data) ==
  IF Len(resp_data) < 1
  THEN [counter |-> 0, events |-> <<>>]
  ELSE [counter |-> resp_data[1],
        events |-> [k \in 1..5 |->
                      bill_event(bill_pair(resp_data, k - 1)[1],
                                 bill_pair(resp_data, k - 1)[2], k - 1)]]

coin_event_map(result_b) ==
  CASE result_b = 0 -> "Null event"
    [] result_b = 1 -> "Reject coin"
    [] result_b = 2 -> "Invalid coin"
    [] result_b = 3 -> "Abandon coin"
    [] result_b = 4 -> "Inhibited coin"
    [] result_b = 5 -> "Full post-insertion inhibit"
    [] result_b = 6 -> "Sorter wall"
    [] result_b = 7 -> "Sorter path"
    [] result_b = 8 -> "Coin jam"
    [] result_b = 9 -> "Sorter jam"
    [] result_b = 10 -> "Sorter sensor"
    [] result_b = 11 -> "Sorter not ready"
    [] result_b = 12 -> "Sorter path error"
    [] result_b = 13 -> "Pay out jam"
    [] result_b = 14 -> "Pay out sensor"
    [] result_b = 15 -> "Pay out empty"
    [] result_b = 16 -> "Base sensor error"
    [] result_b = 17 -> "Year sensor error"
    [] result_b = 18 -> "Token teach error"
    [] result_b = 19 -> "Power fail"
    [] result_b = 20 -> "Authentication fail"
    [] result_b = 21 -> "Coin feeder jam"
    [] result_b = 22 -> "Coin feeder sensor error"
    [] result_b = 23 -> "Coin feeder empty"
    [] result_b = 24 -> "Coin feeder faulty"
    [] result_b = 255 -> "Unknown error"
    [] OTHER -> "Unknown coin event (B=" \o ToString(result_b) \o ")"

coin_event_category_as_bill(result_b) == bill_event_category(result_b)

coin_event_category(result_b) ==
  IF result_b \in {0, 1, 4, 11} THEN "Status"
  ELSE IF result_b \in {2, 3} THEN "Reject"
  ELSE "Error"

coin_event(result_a, result_b, i) ==
  IF result_a = 0
  THEN [category |-> coin_event_category(result_b),
        type |-> coin_event_map(result_b),
        a |-> result_a, b |-> result_b, pair |-> i + 1]
  ELSE [category |-> "Credit",
        type |-> "Coin type " \o ToString(result_a)
                   \o " accepted (Sorter path " \o ToString(result_b) \o ")",
        coin_type |-> result_a, sorter_path |-> result_b,
        a |-> result_a, b |-> result_b, pair |-> i + 1]

coin_pair(resp_data, i) ==
  LET idx == 1 + (i * 2)
  IN IF idx + 1 < Len(resp_data)
     THEN <<resp_data[idx + 1], resp_data[idx + 2]>>
     ELSE <<0, 0>>

parse_header229_response(resp_data) ==
  IF Len(resp_data) < 1
  THEN [counter |-> 0, events |-> <<>>]
  ELSE [counter |-> resp_data[1],
        events |-> [k \in 1..5 |->
                      coin_event(coin_pair(resp_data, k - 1)[1],
                                 coin_pair(resp_data, k - 1)[2], k - 1)]]


(***************************************************************************)
(* BillValidator.scan: the order of the sweep                              *)
(***************************************************************************)
priority_addresses == <<40, 2, 1>>

(* range(lo, hi) *)
Range(lo, hi) == [k \in 1..(hi - lo) |-> lo + k - 1]

NotPriority(a) == \A k \in 1..Len(priority_addresses) : priority_addresses[k] # a

other_addresses == SelectSeq(Range(1, 256), NotPriority)

all_addresses == priority_addresses \o other_addresses

scan_modes == <<"crc", "checksum">>

(* self.timeout as given to __init__, and the value scan sets, in ms *)
self_timeout == 200
scan_timeout == 50

(***************************************************************************)
(* State.                                                                  *)
(*   address, checksum_mode, ser_open, ser_timeout : the session           *)
(*   bv : "none" before BillValidator(...) is called, "session" once it    *)
(*   returned an object, "ValueError" when it raised                       *)
(*   init_args : the checksum_mode (a list of characters) and address      *)
(*   given to the constructor (history)                                    *)
(*   pc, caller, header, data, msg, req, echo, dest_len, resp, parsed,     *)
(*   result, raised, ops, body_read : one call of cmd and its locals       *)
(*   scan_pc, addr_i, mode_i, found_devices, original_address,             *)
(*   original_mode, scan_result : one call of scan and its locals          *)
(*   pre_scan : the session's settings when scan was entered (history)     *)
(*   poll_seen : header and length of what the last simple poll of the     *)
(*   scan read (history); polls : simple polls sent by this scan (history) *)
(*   link, wire, reply, short_left : the serial link                       *)
(*   late : bytes a device has sent that have not reached the input        *)
(*   buffer yet                                                            *)
(*   t_stage .. t_valid : a frame taken through the codec on its own       *)
(*   t_data : a received byte sequence handed to _remove_crc                *)
(*   t_calc : the integrity code recalculated over what _remove_crc         *)
(*   returned, <<msb, lsb>> or <<checksum>>                                 *)
(*   dec_in, dec_stage, dec_out : an event payload taken through a decoder *)
(*   w_pc, w_msg_len, w_req_len, w_dest_len, w_resp, w_result : the        *)
(*   polling thread (w_pc = "dead": no thread alive) and its call of cmd   *)
(*   polling_stop_event, last_response_lock, last_response : what main and *)
(*   the polling thread share; the lock is "free" or names its holder      *)
(*   m_pc : where main is inside its 'poll' or 'stop' command              *)
(*   surfaced : the payload last surfaced in this polling run (history)    *)
(*   sends_after_stop : commands the polling thread has sent since the     *)
(*   stop event was set, counted up to 2 (history)                         *)
(***************************************************************************)
VARIABLES address, checksum_mode, ser_open, ser_timeout, bv, init_args,
          pc, caller, header, data, msg, req, echo, dest_len, resp, parsed,
          result, raised, ops, body_read,
          scan_pc, addr_i, mode_i, found_devices, original_address,
          original_mode, scan_result, pre_scan, poll_seen, polls,
          link, late, wire, reply, short_left,
          t_stage, t_mode, t_addr, t_header, t_payload, t_frame, t_valid,
          t_data, t_calc,
          dec_in, dec_stage, dec_out,
          w_pc, w_msg_len, w_req_len, w_dest_len, w_resp, w_result,
          polling_stop_event, last_response_lock, last_response,
          m_pc, surfaced, sends_after_stop

session_vars == <<address, checksum_mode, ser_open, ser_timeout, bv, init_args>>
cmd_vars == <<pc, caller, header, data, msg, req, echo, dest_len, resp,
              parsed, result, raised, ops, body_read>>
scan_vars == <<scan_pc, addr_i, mode_i, found_devices, original_address,
               original_mode, scan_result, pre_scan, poll_seen, polls>>
link_vars == <<link, late, wire, reply, short_left>>
codec_vars == <<t_stage, t_mode, t_addr, t_header, t_payload, t_frame, t_valid,
                t_data, t_calc>>
dec_vars == <<dec_in, dec_stage, dec_out>>
poll_vars == <<w_pc, w_msg_len, w_req_len, w_dest_len, w_resp, w_result,
               polling_stop_event, last_response_lock, last_response,
               m_pc, surfaced, sends_after_stop>>
vars == <<session_vars, cmd_vars, scan_vars, link_vars, codec_vars, dec_vars,
          poll_vars>>

(***************************************************************************)
(* Input domains.                                                          *)
(***************************************************************************)
RECURSIVE SeqsUpTo(_, _)
SeqsUpTo(S, n) ==
  IF n = 0 THEN {<<>>}
  ELSE LET shorter == SeqsUpTo(S, n - 1)
       IN shorter \cup {Append(q, x) : q \in {r \in shorter : Len(r) = n - 1}, x \in S}

Addresses == {40, 7}
CmdHeaders == {254, 231}
DataBytes == {255}
CmdPayloads == SeqsUpTo(DataBytes, MaxData)
RespHeaders == {0}
RespBytes == {65}
RespPayloads == SeqsUpTo(RespBytes, MaxRespData)

(* the two modes as lists of characters, and the checksum_mode arguments   *)
(* a caller may hand the constructor                                       *)
crc_chars == <<"c", "r", "c">>
checksum_chars == <<"c", "h", "e", "c", "k", "s", "u", "m">>
ModeArgs ==
  {crc_chars, <<"C", "R", "C">>,
   <<"C", "h", "e", "c", "k", "s", "u", "m">>,
   <<"x", "m", "o", "d", "e", "m">>, <<"c", "r", "c", "1", "6">>, <<>>}

(* the codec on its own is exercised over a wider domain *)
CodecAddresses == {1, 40, 255}
CodecHeaders == {0, 31, 159, 254}
CodecBytes == {0, 1, 255}
(* with the payload of the frame parse_test seals, [1, 2, 0, 31, 0] *)
CodecPayloads == SeqsUpTo(CodecBytes, MaxData) \cup {<<31, 0>>}

(***************************************************************************)
(* The serial link.  A device frame is                                     *)
(* [dest, len, src/crc_lsb, header, data..., checksum/crc_msb]; the host   *)
(* is address 1.                                                           *)
(***************************************************************************)
HostAddress == 1

DeviceFrame(mode, src, hdr, payload) ==
  IF mode = "crc"
  THEN _add_crc("crc", <<HostAddress, Len(payload), hdr>> \o payload)
  ELSE _add_crc("checksum", <<HostAddress, Len(payload), src, hdr>> \o payload)

(* frame f with bit b (0..7) of byte k inverted *)
FlipBitAt(f, k, b) == [f EXCEPT ![k] = Xor(f[k], 2 ^ b)]

(* frame f with the lowest bit of byte k inverted *)
FlipBit(f, k) == [f EXCEPT ![k] = IF f[k] % 2 = 0 THEN f[k] + 1 ELSE f[k] - 1]

(* what _remove_crc may be handed: any byte sequence up to MaxRecvLen, the *)
(* empty one included, every sealed frame of the domain above, such a      *)
(* frame with one byte damaged, and the two frames parse_test unseals      *)
RecvBytes == {0, 1, 255}
test_data_remove_crc == <<1, 2, 116, 0, 31, 0, 84>>
test_data_remove_checksum == <<40, 0, 1, 159, 56>>
SealedFrames ==
  {_add_crc(m, cmd_msg(m, a, h, p)) :
     m \in Modes, a \in CodecAddresses, h \in CodecHeaders,
     p \in CodecPayloads}

(* the messages _crc_calculate_xmodem is given on its own: the empty one,   *)
(* every single byte, short sequences, and the digits "123456789"          *)
CrcMessages ==
  {<<i>> : i \in 0..255} \cup SeqsUpTo(RecvBytes, MaxCrcLen)
    \cup {<<49, 50, 51, 52, 53, 54, 55, 56, 57>>}

(* a byte followed by any checksum byte *)
ChecksumPairs == {<<a, c>> : a \in RecvBytes, c \in 0..255}

ReceivedFrames ==
  SeqsUpTo(RecvBytes, MaxRecvLen) \cup SealedFrames
    \cup {FlipBit(f, k) : f \in SealedFrames, k \in 1..4}
    \cup ChecksumPairs
    \cup {test_data_remove_crc, test_data_remove_checksum}

(* what an arbitrary link may answer to a request: nothing, a device frame *)
(* in either mode, or a device frame with one byte damaged                 *)
AnyReplies(src) ==
  LET frames == {DeviceFrame(m, src, h, p) :
                   m \in Modes, h \in RespHeaders, p \in RespPayloads}
  IN {<<>>} \cup frames \cup {FlipBit(f, k) : f \in frames, k \in 1..5}

(* the simulated device answers exactly the frames a host configured for   *)
(* link.dev_addr and link.dev_mode builds: the simple poll with an ACK, the *)
(* manufacturer query with link.man                                        *)
Cut(f) == IF link.cut > 0 THEN SubSeq(f, 1, Min(link.cut, Len(f))) ELSE f

SimReplies(r) ==
  IF Len(r) = 5
     /\ r = _add_crc(link.dev_mode, cmd_msg(link.dev_mode, link.dev_addr, r[4], <<>>))
  THEN IF r[4] = 246
       THEN IF link.man_silent THEN {<<>>}
            ELSE {Cut(DeviceFrame(link.dev_mode, link.dev_addr, 0, link.man))}
       ELSE {Cut(DeviceFrame(link.dev_mode, link.dev_addr, 0, <<>>))}
  ELSE {<<>>}

(* a device that reports events: it answers a frame that begins with its   *)
(* address with one of a few event payloads (none, or a counter byte)      *)
PollPayloads == {<<>>, <<1>>, <<2>>}

EventReplies(r) ==
  IF Len(r) >= 1 /\ r[1] = link.dev_addr
  THEN {DeviceFrame(link.dev_mode, link.dev_addr, 0, p) : p \in PollPayloads}
  ELSE {<<>>}

LinkReplies(r) ==
  IF link.kind = "any" THEN AnyReplies(address)
  ELSE IF link.kind = "events" THEN EventReplies(r)
  ELSE SimReplies(r)

(* the loopback of the transmitted frame *)
LinkEchoes(r) ==
  IF link.kind = "any" THEN {r, <<>>}
  ELSE IF link.echo THEN {r} ELSE {<<>>}

(* serial read(k): up to k bytes; fewer when the timeout expires first.    *)
(* short_left is how many more reads of the current command may time out   *)
(* with bytes still on their way; during a scan every byte the link        *)
(* carries arrives in time.                                                *)
ReadCounts(k) ==
  LET avail == Min(k, Len(wire))
  IN IF short_left > 0 THEN 0..avail ELSE {avail}

LogOp(name, n) == Append(ops, [op |-> name, n |-> n])

NoParse == [resp_header |-> NoneVal, resp_data |-> <<>>,
            crc_valid |-> FALSE, fallback |-> FALSE]

(***************************************************************************)
(* Initial states: the session as __init__ leaves it (no serial            *)
(* connection), no call in progress.                                       *)
(***************************************************************************)
NoSettings == [address |-> 0, mode |-> "crc", timeout |-> 0]

NoPoll == [header |-> NoneVal, len |-> 0]

CmdLocalsClear ==
  /\ header' = 0 /\ data' = <<>> /\ msg' = <<>> /\ req' = <<>>
  /\ echo' = <<>> /\ dest_len' = <<>> /\ resp' = <<>> /\ parsed' = NoParse
  /\ result' = None /\ raised' = FALSE /\ ops' = <<>> /\ body_read' = FALSE

InitFresh ==
  /\ ser_open = FALSE /\ ser_timeout = self_timeout
  /\ pc = "idle" /\ caller = "main"
  /\ header = 0 /\ data = <<>> /\ msg = <<>> /\ req = <<>>
  /\ echo = <<>> /\ dest_len = <<>> /\ resp = <<>> /\ parsed = NoParse
  /\ result = None /\ raised = FALSE /\ ops = <<>> /\ body_read = FALSE
  /\ scan_pc = "idle" /\ addr_i = 0 /\ mode_i = 0 /\ found_devices = <<>>
  /\ original_address = 0 /\ original_mode = "crc" /\ scan_result = <<>>
  /\ pre_scan = NoSettings /\ poll_seen = NoPoll /\ polls = 0
  /\ wire = <<>> /\ reply = <<>> /\ short_left = 0 /\ late = <<>>

(* a session built by BillValidator(checksum_mode=m, address=a) with m one *)
(* of the two modes as main passes them                                    *)
InitSession(addrs) ==
  /\ address \in addrs /\ checksum_mode \in Modes
  /\ bv = "session"
  /\ init_args = [checksum_mode |-> IF checksum_mode = "crc" THEN crc_chars
                                    ELSE checksum_chars,
                  address |-> address]
  /\ InitFresh

InitCodecIdle ==
  /\ t_stage = "idle" /\ t_mode = "crc" /\ t_addr = 0 /\ t_header = 0
  /\ t_payload = <<>> /\ t_frame = <<>> /\ t_valid = FALSE
  /\ t_data = <<>> /\ t_calc = <<>>

NoEvents == [counter |-> 0, events |-> <<>>]

InitDecodeIdle == dec_in = <<>> /\ dec_stage = "idle" /\ dec_out = NoEvents

(* last_response[0] is None *)
NoneList == <<NoneVal>>

(* main() before its loop: no polling thread, the event clear, the lock    *)
(* free, last_response = [None]                                            *)
InitPolling ==
  /\ w_pc = "dead" /\ w_msg_len = 0 /\ w_req_len = 0 /\ w_dest_len = <<>>
  /\ w_resp = <<>> /\ w_result = None
  /\ polling_stop_event = FALSE /\ last_response_lock = "free"
  /\ last_response = NoneList
  /\ m_pc = "idle"
  /\ surfaced = NoneList /\ sends_after_stop = 0

AnyLink == [kind |-> "any", echo |-> TRUE, dev_addr |-> 0, dev_mode |-> "crc",
            man |-> <<>>, man_silent |-> FALSE, cut |-> 0]

(* a link with one device on it: whether the link loops the request back,  *)
(* the device's address and mode, its manufacturer string (or no answer to  *)
(* that query), and after how many bytes its answers break off (0: never)   *)
SimLink(e, a, m, name, silent, c) ==
  [kind |-> "sim", echo |-> e, dev_addr |-> a, dev_mode |-> m,
   man |-> name, man_silent |-> silent, cut |-> c]

(* a link that loops requests back, with an event-reporting device *)
EventLink(a, m) ==
  [kind |-> "events", echo |-> TRUE, dev_addr |-> a, dev_mode |-> m,
   man |-> <<>>, man_silent |-> TRUE, cut |-> 0]

(* a link that carries nothing back: no loopback, and no device at any     *)
(* address a host can be set to                                            *)
QuietLink == SimLink(FALSE, 0, "crc", <<>>, TRUE, 0)

(* a link that loops requests back and has no device on it; the foreground *)
(* sends commands with payloads over it                                    *)
OpsLink ==
  [kind |-> "ops", echo |-> TRUE, dev_addr |-> 0, dev_mode |-> "crc",
   man |-> <<>>, man_silent |-> TRUE, cut |-> 0]

(* a link that loops requests back, with one device on it whose answers    *)
(* may take longer than the read timeouts of cmd                           *)
SlowLink(a, m, name) ==
  [kind |-> "slow", echo |-> TRUE, dev_addr |-> a, dev_mode |-> m,
   man |-> name, man_silent |-> FALSE, cut |-> 0]

SimLinks ==
  { SimLink(TRUE, 7, "checksum", <<65, 66>>, FALSE, 0),
    SimLink(TRUE, 7, "checksum", <<32, 65>>, FALSE, 0),
    SimLink(TRUE, 7, "checksum", <<>>, FALSE, 0),
    SimLink(TRUE, 7, "checksum", <<>>, TRUE, 0),
    SimLink(TRUE, 7, "checksum", <<200>>, FALSE, 0),
    SimLink(TRUE, 40, "crc", <<65, 66>>, FALSE, 0),
    SimLink(TRUE, 255, "checksum", <<200>>, FALSE, 0),
    SimLink(TRUE, 7, "crc", <<65, 66>>, FALSE, 4),
    SimLink(FALSE, 7, "checksum", <<65, 66>>, FALSE, 0) }

Init ==
  /\ InitSession(Addresses) /\ InitCodecIdle /\ InitDecodeIdle /\ InitPolling
  /\ link = AnyLink

InitScan ==
  /\ InitSession(Addresses) /\ InitCodecIdle /\ InitDecodeIdle /\ InitPolling
  /\ link \in SimLinks

(* main before its call of BillValidator(...): no object yet *)
ConstructLinks ==
  { SimLink(TRUE, 7, "checksum", <<65, 66>>, FALSE, 0),
    SimLink(TRUE, 40, "crc", <<65, 66>>, FALSE, 0),
    SimLink(FALSE, 7, "checksum", <<65, 66>>, FALSE, 0) }

InitConstruct ==
  /\ bv = "none" /\ address = NoneVal /\ checksum_mode = ""
  /\ init_args \in [checksum_mode : ModeArgs, address : Addresses]
  /\ InitFresh /\ InitCodecIdle /\ InitDecodeIdle /\ InitPolling
  /\ link \in ConstructLinks

(* an event payload: up to n bytes of counter, first pair, then the bytes   *)
(* of tail over and over                                                   *)
EventPayload(counter, a, b, tail, n) ==
  [k \in 1..n |-> IF k = 1 THEN counter
                  ELSE IF k = 2 THEN a
                  ELSE IF k = 3 THEN b
                  ELSE tail[((k - 4) % Len(tail)) + 1]]

EventCounters == {3, 255}
EventFirstA == {0, 5}
EventTails == {<<0, 0, 7, 1>>, <<2, 0, 0, 17, 9, 9>>}

EventPayloads ==
  {EventPayload(c, a, b, t, n) :
     c \in EventCounters, a \in EventFirstA, b \in 0..255, t \in EventTails,
     n \in 0..MaxPayloadLen}

InitDecode ==
  /\ InitSession({40}) /\ checksum_mode = "crc" /\ link = AnyLink
  /\ InitCodecIdle /\ InitPolling
  /\ dec_in \in EventPayloads /\ dec_stage = "input" /\ dec_out = NoEvents

(* the session of the defaults (bill validator at address 40), its device  *)
(* on the link                                                             *)
InitPoll ==
  /\ InitSession({40}) /\ InitCodecIdle /\ InitDecodeIdle /\ InitPolling
  /\ link = EventLink(address, checksum_mode)

InitPollCmd == InitPoll /\ checksum_mode = "crc"

InitPollScan ==
  /\ InitSession({40}) /\ checksum_mode = "crc"
  /\ InitCodecIdle /\ InitDecodeIdle /\ InitPolling
  /\ link = QuietLink

InitLate ==
  /\ InitSession({7, 40}) /\ InitCodecIdle /\ InitDecodeIdle /\ InitPolling
  /\ link \in {SlowLink(7, "checksum", <<65, 66>>), SlowLink(40, "crc", <<>>)}

InitOffline ==
  /\ InitSession({7, 40}) /\ InitCodecIdle /\ InitDecodeIdle /\ InitPolling
  /\ link \in {SimLink(TRUE, 7, "checksum", <<65, 66>>, FALSE, 0),
               SimLink(TRUE, 7, "checksum", <<200>>, FALSE, 0)}

InitOps ==
  /\ InitSession({7})
  /\ InitCodecIdle /\ InitDecodeIdle /\ InitPolling
  /\ link = OpsLink

InitCodec ==
  /\ InitSession({40}) /\ checksum_mode = "crc" /\ link = AnyLink
  /\ InitDecodeIdle /\ InitPolling
  /\ t_mode \in Modes /\ t_frame = <<>> /\ t_valid = FALSE /\ t_calc = <<>>
  /\ \/ /\ t_stage = "input" /\ t_addr \in CodecAddresses
        /\ t_header \in CodecHeaders /\ t_payload \in CodecPayloads
        /\ t_data = <<>>
     \/ /\ t_stage = "received" /\ t_data \in ReceivedFrames
        /\ t_addr = 0 /\ t_header = 0 /\ t_payload = <<>>
     \/ /\ t_stage = "message" /\ t_data \in CrcMessages
        /\ t_addr = 0 /\ t_header = 0 /\ t_payload = <<>>

(* main() is at its prompt: no command of the foreground is in progress *)
MainIdle ==
  /\ bv = "session" /\ pc = "idle" /\ scan_pc = "idle"
  /\ m_pc \in {"idle", "refused"}

(* what the foreground sends with 'cmd': any header and payload over an    *)
(* arbitrary link, a simple poll where a device is simulated               *)
CmdInputs ==
  IF link.kind = "any" THEN CmdHeaders \X CmdPayloads
  ELSE IF link.kind = "ops" THEN {<<254, <<>>>>, <<231, <<255>>>>}
  ELSE {<<254, <<>>>>}

(***************************************************************************)
(* BillValidator.__init__. A checksum_mode argument is a list of           *)
(* characters; str.lower() maps each upper-case letter to its lower-case   *)
(* one and keeps every other character.                                    *)
(***************************************************************************)
ascii_uppercase ==
  <<"A", "B", "C", "D", "E", "F", "G", "H", "I", "J", "K", "L", "M",
    "N", "O", "P", "Q", "R", "S", "T", "U", "V", "W", "X", "Y", "Z">>
ascii_lowercase ==
  <<"a", "b", "c", "d", "e", "f", "g", "h", "i", "j", "k", "l", "m",
    "n", "o", "p", "q", "r", "s", "t", "u", "v", "w", "x", "y", "z">>

char_lower(c) ==
  IF \E i \in 1..26 : ascii_uppercase[i] = c
  THEN ascii_lowercase[CHOOSE i \in 1..26 : ascii_uppercase[i] = c]
  ELSE c

str_lower(chars) == [i \in 1..Len(chars) |-> char_lower(chars[i])]

(* the string a list of characters spells *)
RECURSIVE Spell(_)
Spell(chars) ==
  IF chars = <<>> THEN "" ELSE chars[1] \o Spell(Tail(chars))

__init___no_check ==
  /\ bv = "none"
  /\ address' = init_args.address
  /\ checksum_mode' = Spell(str_lower(init_args.checksum_mode))
  /\ ser_open' = FALSE /\ ser_timeout' = self_timeout
  /\ bv' = "session"
  /\ UNCHANGED <<init_args, cmd_vars, scan_vars, link_vars, codec_vars,
                 dec_vars, poll_vars>>

__init__ ==
  /\ bv = "none"
  /\ address' = init_args.address
  /\ checksum_mode' = Spell(str_lower(init_args.checksum_mode))
  /\ ser_open' = FALSE /\ ser_timeout' = self_timeout
  /\ bv' = IF Spell(str_lower(init_args.checksum_mode)) \in {"crc", "checksum"}
           THEN "session" ELSE "ValueError"
  /\ UNCHANGED <<init_args, cmd_vars, scan_vars, link_vars, codec_vars,
                 dec_vars, poll_vars>>

(***************************************************************************)
(* BillValidator.connect / BillValidator.disconnect                        *)
(***************************************************************************)
Connect ==
  /\ MainIdle /\ ~ser_open
  /\ ser_open' = TRUE /\ ser_timeout' = self_timeout
  /\ wire' = <<>>
  /\ UNCHANGED <<address, checksum_mode, bv, init_args, cmd_vars, scan_vars,
                 link, late, reply, short_left, codec_vars, dec_vars, poll_vars>>

Disconnect_resets_mode ==
  /\ MainIdle /\ ser_open
  /\ ser_open' = FALSE
  /\ wire' = <<>>
  /\ checksum_mode' = "crc"
  /\ UNCHANGED <<address, ser_timeout, bv, init_args, cmd_vars,
                 scan_vars, link, late, reply, short_left, codec_vars, dec_vars,
                 poll_vars>>

Disconnect ==
  /\ MainIdle /\ ser_open
  /\ ser_open' = FALSE
  /\ wire' = <<>>
  /\ UNCHANGED <<address, checksum_mode, ser_timeout, bv, init_args, cmd_vars,
                 scan_vars, link, late, reply, short_left, codec_vars, dec_vars,
                 poll_vars>>

(***************************************************************************)
(* BillValidator.cmd                                                       *)
(***************************************************************************)
(* a caller enters cmd(h, d) *)
Enter(who, h, d) ==
  /\ pc' = "call" /\ caller' = who /\ header' = h /\ data' = d
  /\ msg' = <<>> /\ req' = <<>> /\ echo' = <<>> /\ dest_len' = <<>>
  /\ resp' = <<>> /\ parsed' = NoParse /\ result' = None /\ raised' = FALSE
  /\ ops' = <<>> /\ body_read' = FALSE

(* the foreground (parse_cmd) issues a command *)
CmdCall ==
  /\ MainIdle
  /\ \E c \in CmdInputs : Enter("main", c[1], c[2])
  /\ short_left' = IF link.kind = "any" THEN MaxShortReads ELSE 0
  /\ UNCHANGED <<session_vars, scan_vars, link, late, wire, reply, codec_vars, dec_vars, poll_vars>>

CmdNotConnected_flushes ==
  /\ pc = "call" /\ ~ser_open
  /\ result' = None /\ pc' = "returned"
  /\ ops' = <<[op |-> "flush", n |-> 0]>>
  /\ UNCHANGED <<session_vars, caller, header, data, msg, req, echo, dest_len,
                 resp, parsed, raised, body_read, scan_vars, link_vars,
                 codec_vars, dec_vars, poll_vars>>

(* "Not connected": return None at once *)
CmdNotConnected ==
  /\ pc = "call" /\ ~ser_open
  /\ result' = None /\ pc' = "returned"
  /\ UNCHANGED <<session_vars, caller, header, data, msg, req, echo, dest_len,
                 resp, parsed, raised, ops, body_read, scan_vars, link_vars,
                 codec_vars, dec_vars, poll_vars>>

(* reset_input_buffer() discards what has arrived; bytes still on their    *)
(* way arrive before it and are discarded, or after it, before or behind   *)
(* the loopback of the request                                             *)
AfterFlush(e) ==
  IF late = <<>> THEN {e} ELSE {e, e \o late, late \o e}

(* a slow device's answer reaches the buffer within the read timeouts of   *)
(* its command, or only after that command has returned                    *)
ArrivalTimes(a) ==
  IF link.kind = "slow" /\ a # <<>> THEN {"in time", "late"} ELSE {"in time"}

(* build msg, seal it, reset_input_buffer(), write(req); the link then     *)
(* carries the loopback and the answer                                     *)
CmdSend ==
  /\ pc = "call" /\ ser_open
  /\ LET m == cmd_msg(checksum_mode, address, header, data)
         r == _add_crc(checksum_mode, m)
     IN /\ msg' = m
        /\ req' = r
        /\ IF r = <<IndexError>>
           THEN /\ raised' = TRUE /\ pc' = "raised"
                /\ UNCHANGED <<ops, wire, reply, late>>
           ELSE /\ raised' = FALSE /\ pc' = "echo"
                /\ ops' = <<[op |-> "flush", n |-> 0],
                            [op |-> "write", n |-> Len(r)]>>
                /\ \E e \in LinkEchoes(r), a \in LinkReplies(r) :
                      \E before \in AfterFlush(e), t \in ArrivalTimes(a) :
                         /\ wire' = IF t = "in time" THEN before \o a ELSE before
                         /\ late' = IF t = "in time" THEN <<>> ELSE a
                         /\ reply' = a
  /\ UNCHANGED <<session_vars, caller, header, data, echo, dest_len, resp,
                 parsed, result, body_read, scan_vars, link, short_left,
                 codec_vars, dec_vars, poll_vars>>

(* echo = self.ser.read(len(req)) *)
CmdReadEcho_unsealed_length ==
  /\ pc = "echo"
  /\ \E j \in ReadCounts(Len(msg)) :
        /\ echo' = SubSeq(wire, 1, j)
        /\ wire' = SubSeq(wire, j + 1, Len(wire))
        /\ short_left' = IF j < Min(Len(msg), Len(wire))
                         THEN short_left - 1 ELSE short_left
  /\ ops' = LogOp("read", Len(msg))
  /\ pc' = "len"
  /\ UNCHANGED <<session_vars, caller, header, data, msg, req, dest_len, resp,
                 parsed, result, raised, body_read, scan_vars, link, late, reply,
                 codec_vars, dec_vars, poll_vars>>

CmdReadEcho ==
  /\ pc = "echo"
  /\ \E j \in ReadCounts(Len(req)) :
        /\ echo' = SubSeq(wire, 1, j)
        /\ wire' = SubSeq(wire, j + 1, Len(wire))
        /\ short_left' = IF j < Min(Len(req), Len(wire))
                         THEN short_left - 1 ELSE short_left
  /\ ops' = LogOp("read", Len(req))
  /\ pc' = "len"
  /\ UNCHANGED <<session_vars, caller, header, data, msg, req, dest_len, resp,
                 parsed, result, raised, body_read, scan_vars, link, late, reply,
                 codec_vars, dec_vars, poll_vars>>

(* the rest of cmd once resp is known: parse, then return *)
Finish(r) ==
  /\ resp' = r
  /\ parsed' = cmd_parse(checksum_mode, r)
  /\ result' = cmd_return(msg, r, cmd_parse(checksum_mode, r))
  /\ pc' = "returned"

(* dest_len = self.ser.read(2); on a short read resp stays empty *)
CmdReadLen ==
  /\ pc = "len"
  /\ \E j \in ReadCounts(2) :
        /\ dest_len' = SubSeq(wire, 1, j)
        /\ wire' = SubSeq(wire, j + 1, Len(wire))
        /\ short_left' = IF j < Min(2, Len(wire))
                         THEN short_left - 1 ELSE short_left
        /\ IF j = 2
           THEN /\ pc' = "body"
                /\ UNCHANGED <<resp, parsed, result>>
           ELSE Finish(<<>>)
  /\ ops' = LogOp("read", 2)
  /\ UNCHANGED <<session_vars, caller, header, data, msg, req, echo, raised,
                 body_read, scan_vars, link, late, reply, codec_vars, dec_vars, poll_vars>>

(* remaining = self.ser.read(resp_data_len + 3); resp = dest_len + remaining *)
CmdReadBody ==
  /\ pc = "body"
  /\ LET resp_data_len == dest_len[2]
     IN /\ \E j \in ReadCounts(resp_data_len + 3) :
              /\ wire' = SubSeq(wire, j + 1, Len(wire))
              /\ short_left' = IF j < Min(resp_data_len + 3, Len(wire))
                               THEN short_left - 1 ELSE short_left
              /\ Finish(dest_len \o SubSeq(wire, 1, j))
        /\ ops' = LogOp("read", resp_data_len + 3)
  /\ body_read' = TRUE
  /\ UNCHANGED <<session_vars, caller, header, data, msg, req, echo, dest_len,
                 raised, scan_vars, link, late, reply, codec_vars, dec_vars, poll_vars>>

(* the foreground takes the value cmd returned *)
CmdDone ==
  /\ pc = "returned" /\ caller = "main"
  /\ pc' = "idle" /\ CmdLocalsClear
  /\ UNCHANGED <<session_vars, caller, scan_vars, link_vars, codec_vars, dec_vars, poll_vars>>

(***************************************************************************)
(* BillValidator.scan                                                      *)
(***************************************************************************)
ScanLocalsClear ==
  /\ addr_i' = 0 /\ mode_i' = 0 /\ found_devices' = <<>>
  /\ original_address' = 0 /\ original_mode' = "crc"
  /\ pre_scan' = NoSettings /\ poll_seen' = NoPoll /\ polls' = 0

(* one iteration of the inner loop up to the simple poll: set the address, *)
(* the mode and the short timeout, then cmd(254)                           *)
Probe(i, m) ==
  /\ addr_i' = i /\ mode_i' = m
  /\ address' = all_addresses[i]
  /\ checksum_mode' = scan_modes[m]
  /\ ser_timeout' = scan_timeout
  /\ Enter("scan", 254, <<>>)
  /\ scan_pc' = "poll"
  /\ polls' = polls + 1

(* "Restore original settings", then return found_devices *)
RestoreAndReturn_keeps_mode(fd, how) ==
  /\ address' = original_address
  /\ checksum_mode' = checksum_mode
  /\ ser_timeout' = self_timeout
  /\ scan_pc' = how
  /\ scan_result' = fd
  /\ found_devices' = fd
  /\ pc' = "idle" /\ caller' = "main" /\ CmdLocalsClear
  /\ UNCHANGED <<addr_i, mode_i, original_address, original_mode, pre_scan,
                 polls>>

RestoreAndReturn(fd, how) ==
  /\ address' = original_address
  /\ checksum_mode' = original_mode
  /\ ser_timeout' = self_timeout
  /\ scan_pc' = how
  /\ scan_result' = fd
  /\ found_devices' = fd
  /\ pc' = "idle" /\ caller' = "main" /\ CmdLocalsClear
  /\ UNCHANGED <<addr_i, mode_i, original_address, original_mode, pre_scan,
                 polls>>

(* the loops move on to the next (address, mode), or end *)
Advance(fd) ==
  IF mode_i < Len(scan_modes)
  THEN /\ Probe(addr_i, mode_i + 1)
       /\ found_devices' = fd
       /\ UNCHANGED <<original_address, original_mode, scan_result, pre_scan>>
  ELSE IF addr_i < Len(all_addresses)
       THEN /\ Probe(addr_i + 1, 1)
            /\ found_devices' = fd
            /\ UNCHANGED <<original_address, original_mode, scan_result,
                           pre_scan>>
       ELSE RestoreAndReturn(fd, "done")

(* "Not connected": return (None) *)
ScanNotConnected ==
  /\ MainIdle /\ ~ser_open
  /\ scan_pc' = "refused" /\ scan_result' = <<>>
  /\ pre_scan' = [address |-> address, mode |-> checksum_mode,
                  timeout |-> ser_timeout]
  /\ UNCHANGED <<session_vars, cmd_vars, addr_i, mode_i, found_devices,
                 original_address, original_mode, poll_seen, polls, link_vars,
                 codec_vars, dec_vars, poll_vars>>

(* scan() up to its first simple poll *)
ScanStart ==
  /\ MainIdle /\ ser_open
  /\ found_devices' = <<>>
  /\ original_address' = address
  /\ original_mode' = checksum_mode
  /\ pre_scan' = [address |-> address, mode |-> checksum_mode,
                  timeout |-> ser_timeout]
  /\ Probe(1, 1)
  /\ short_left' = 0
  /\ UNCHANGED <<ser_open, bv, init_args,
                 scan_result, poll_seen, link, late, wire, reply,
                 codec_vars, dec_vars, poll_vars>>

(* res = self.cmd(254): no answer moves on, an answer asks for the         *)
(* manufacturer, cmd(246)                                                  *)
ScanPollReturn ==
  /\ pc = "returned" /\ caller = "scan" /\ scan_pc = "poll"
  /\ poll_seen' = [header |-> result.header, len |-> Len(resp)]
  /\ IF result.none
     THEN Advance(found_devices)
     ELSE /\ Enter("scan", 246, <<>>)
          /\ scan_pc' = "man"
          /\ UNCHANGED <<address, checksum_mode, ser_timeout, addr_i, mode_i,
                         found_devices, original_address, original_mode,
                         scan_result, pre_scan, polls>>
  /\ UNCHANGED <<ser_open, bv, init_args,
                 link_vars, codec_vars, dec_vars, poll_vars>>

(* man_name: the manufacturer reply as text, or "Unknown" when there is no *)
(* reply or no data                                                        *)
man_name_of(man_res) ==
  IF ~man_res.none /\ man_res.data # <<>>
  THEN _ints_to_ascii(man_res.data)
  ELSE Unknown

(* man_res = self.cmd(246): man_name.strip() raises AttributeError when    *)
(* man_name is None and the exception leaves scan; otherwise the device is *)
(* recorded and the loops move on                                          *)
ScanManReturn ==
  /\ pc = "returned" /\ caller = "scan" /\ scan_pc = "man"
  /\ LET man_name == man_name_of(result)
     IN IF man_name = NoneStr
        THEN /\ scan_pc' = "raised"
             /\ pc' = "idle" /\ caller' = "main" /\ CmdLocalsClear
             /\ UNCHANGED <<address, checksum_mode, ser_timeout,
                            addr_i, mode_i, found_devices, original_address,
                            original_mode, scan_result, pre_scan, polls>>
        ELSE Advance(Append(found_devices,
                            [address |-> all_addresses[addr_i],
                             mode |-> scan_modes[mode_i],
                             manufacturer |-> Strip(man_name)]))
  /\ UNCHANGED <<ser_open, bv, init_args,
                 poll_seen, link_vars, codec_vars, dec_vars, poll_vars>>

(* Ctrl+C while the sweep is running: except KeyboardInterrupt, then the   *)
(* restore                                                                 *)
ScanInterrupt ==
  /\ scan_pc \in {"poll", "man"}
  /\ pc # "raised"
  /\ RestoreAndReturn(found_devices, "aborted")
  /\ UNCHANGED <<ser_open, bv, init_args,
                 poll_seen, link_vars, codec_vars, dec_vars, poll_vars>>

(* main() takes the return value, or catches the exception, and prompts    *)
(* again                                                                   *)
ScanFinish ==
  /\ scan_pc \in {"refused", "done", "aborted", "raised"}
  /\ scan_pc' = "idle" /\ scan_result' = <<>> /\ ScanLocalsClear
  /\ UNCHANGED <<session_vars, pc, caller, header, data, msg, req, echo, dest_len,
                 resp, parsed, result, raised, ops, body_read, link_vars,
                 codec_vars, dec_vars, poll_vars>>

(***************************************************************************)
(* A frame taken through the codec alone: built as cmd builds msg, sealed  *)
(* by _add_crc, parsed by _remove_crc.                                     *)
(***************************************************************************)
CodecBuild ==
  /\ t_stage = "input"
  /\ t_frame' = cmd_msg(t_mode, t_addr, t_header, t_payload)
  /\ t_stage' = "base"
  /\ UNCHANGED <<session_vars, cmd_vars, scan_vars, link_vars, t_mode, t_addr,
                 t_header, t_payload, t_valid, t_data, t_calc, dec_vars,
                 poll_vars>>

CodecSeal ==
  /\ t_stage = "base"
  /\ t_frame' = _add_crc(t_mode, t_frame)
  /\ t_stage' = "sealed"
  /\ UNCHANGED <<session_vars, cmd_vars, scan_vars, link_vars, t_mode, t_addr,
                 t_header, t_payload, t_valid, t_data, t_calc, dec_vars,
                 poll_vars>>

CodecUnseal ==
  /\ t_stage = "sealed"
  /\ LET r == _remove_crc(t_mode, t_frame)
     IN /\ t_frame' = r.l
        /\ t_valid' = r.crc_valid
        /\ t_stage' = IF r.raised THEN "raised" ELSE "unsealed"
  /\ UNCHANGED <<session_vars, cmd_vars, scan_vars, link_vars, t_mode, t_addr,
                 t_header, t_payload, t_data, t_calc, dec_vars, poll_vars>>

(***************************************************************************)
(* _remove_crc handed a received byte sequence, as cmd hands it resp and   *)
(* parse_test its test_data, and the recalculation parse_test then makes   *)
(* over the list that came back.                                           *)
(***************************************************************************)
CodecRemove ==
  /\ t_stage = "received"
  /\ LET r == _remove_crc(t_mode, t_data)
     IN /\ t_frame' = r.l
        /\ t_valid' = r.crc_valid
        /\ t_stage' = IF r.raised THEN "raised" ELSE "stripped"
  /\ UNCHANGED <<session_vars, cmd_vars, scan_vars, link_vars, t_mode, t_addr,
                 t_header, t_payload, t_data, t_calc, dec_vars, poll_vars>>

(* a sealed frame reaches _remove_crc with one bit of one byte inverted *)
CodecFlip ==
  /\ t_stage = "sealed"
  /\ \E k \in 1..Len(t_frame), b \in 0..7 : t_data' = FlipBitAt(t_frame, k, b)
  /\ t_stage' = "received"
  /\ UNCHANGED <<session_vars, cmd_vars, scan_vars, link_vars, t_mode, t_addr,
                 t_header, t_payload, t_frame, t_valid, t_calc, dec_vars,
                 poll_vars>>

(* _crc_calculate_xmodem called on a message by itself *)
CodecCrc ==
  /\ t_stage = "message"
  /\ t_calc' = _crc_calculate_xmodem(t_data)
  /\ t_stage' = "crc"
  /\ UNCHANGED <<session_vars, cmd_vars, scan_vars, link_vars, t_mode, t_addr,
                 t_header, t_payload, t_frame, t_valid, t_data, dec_vars,
                 poll_vars>>

CodecRecalculate ==
  /\ t_stage = "stripped"
  /\ t_calc' = IF t_mode = "crc" THEN _crc_calculate_xmodem(t_frame)
               ELSE <<_checksum_calculate(t_frame)>>
  /\ t_stage' = "recalculated"
  /\ UNCHANGED <<session_vars, cmd_vars, scan_vars, link_vars, t_mode, t_addr,
                 t_header, t_payload, t_frame, t_valid, t_data, dec_vars,
                 poll_vars>>

(***************************************************************************)
(* poll_worker: the polling thread. Its call of cmd has locals of its own  *)
(* and shares the session and the serial link with the foreground. Of msg  *)
(* and req the call uses only the lengths once the frame is written, and   *)
(* they are kept as w_msg_len and w_req_len.                               *)
(***************************************************************************)
event_header == 159

WorkerLocalsClear ==
  /\ w_msg_len' = 0 /\ w_req_len' = 0 /\ w_dest_len' = <<>> /\ w_resp' = <<>>
  /\ w_result' = None

poll_unchanged ==
  UNCHANGED <<polling_stop_event, last_response_lock, last_response, m_pc,
              surfaced>>

(* while not stop_event.is_set(): leave the loop, or enter cmd *)
WCheck ==
  /\ w_pc = "check"
  /\ w_pc' = IF polling_stop_event THEN "dead" ELSE "call"
  /\ WorkerLocalsClear
  /\ poll_unchanged
  /\ UNCHANGED <<session_vars, cmd_vars, scan_vars, link_vars, codec_vars,
                 dec_vars, sends_after_stop>>

(* cmd: "Not connected", return None *)
WNotConnected ==
  /\ w_pc = "call" /\ ~ser_open
  /\ w_result' = None /\ w_pc' = "returned"
  /\ poll_unchanged
  /\ UNCHANGED <<session_vars, cmd_vars, scan_vars, link_vars, codec_vars,
                 dec_vars, w_msg_len, w_req_len, w_dest_len, w_resp, sends_after_stop>>

(* cmd: build msg from the session's address and mode as they are now,     *)
(* seal it, reset_input_buffer(), write(req)                               *)
WSend ==
  /\ w_pc = "call" /\ ser_open
  /\ LET m == cmd_msg(checksum_mode, address, event_header, <<>>)
         r == _add_crc(checksum_mode, m)
     IN /\ w_msg_len' = Len(m)
        /\ w_req_len' = Len(r)
        /\ \E e \in LinkEchoes(r), a \in LinkReplies(r) :
              /\ wire' = e \o a
              /\ reply' = a
  /\ w_pc' = "echo"
  /\ sends_after_stop' = IF polling_stop_event
                         THEN Min(2, sends_after_stop + 1)
                         ELSE sends_after_stop
  /\ poll_unchanged
  /\ UNCHANGED <<session_vars, cmd_vars, scan_vars, link, late, short_left,
                 codec_vars, dec_vars, w_dest_len, w_resp, w_result>>

(* cmd: echo = self.ser.read(len(req)); the echo is not used again *)
WReadEcho ==
  /\ w_pc = "echo"
  /\ \E j \in ReadCounts(w_req_len) :
        /\ wire' = SubSeq(wire, j + 1, Len(wire))
        /\ short_left' = IF j < Min(w_req_len, Len(wire))
                         THEN short_left - 1 ELSE short_left
  /\ w_pc' = "len"
  /\ poll_unchanged
  /\ UNCHANGED <<session_vars, cmd_vars, scan_vars, link, late, reply, codec_vars,
                 dec_vars, w_msg_len, w_req_len, w_dest_len, w_resp, w_result,
                 sends_after_stop>>

(* cmd: parse, then `if len(resp) <= len(msg): return None`, else the dict *)
WFinish(r) ==
  /\ w_resp' = r
  /\ w_result' = IF Len(r) <= w_msg_len THEN None
                 ELSE [none |-> FALSE,
                       header |-> cmd_parse(checksum_mode, r).resp_header,
                       data |-> cmd_parse(checksum_mode, r).resp_data]
  /\ w_pc' = "returned"

(* cmd: dest_len = self.ser.read(2) *)
WReadLen ==
  /\ w_pc = "len"
  /\ \E j \in ReadCounts(2) :
        /\ w_dest_len' = SubSeq(wire, 1, j)
        /\ wire' = SubSeq(wire, j + 1, Len(wire))
        /\ short_left' = IF j < Min(2, Len(wire))
                         THEN short_left - 1 ELSE short_left
        /\ IF j = 2
           THEN /\ w_pc' = "body"
                /\ UNCHANGED <<w_resp, w_result>>
           ELSE WFinish(<<>>)
  /\ poll_unchanged
  /\ UNCHANGED <<session_vars, cmd_vars, scan_vars, link, late, reply, codec_vars,
                 dec_vars, w_msg_len, w_req_len, sends_after_stop>>

(* cmd: remaining = self.ser.read(resp_data_len + 3) *)
WReadBody ==
  /\ w_pc = "body"
  /\ LET resp_data_len == w_dest_len[2]
     IN \E j \in ReadCounts(resp_data_len + 3) :
           /\ wire' = SubSeq(wire, j + 1, Len(wire))
           /\ short_left' = IF j < Min(resp_data_len + 3, Len(wire))
                            THEN short_left - 1 ELSE short_left
           /\ WFinish(w_dest_len \o SubSeq(wire, 1, j))
  /\ poll_unchanged
  /\ UNCHANGED <<session_vars, cmd_vars, scan_vars, link, late, reply, codec_vars,
                 dec_vars, w_msg_len, w_req_len, w_dest_len, sends_after_stop>>

(* if result and result.get('data'): false, on to the wait *)
WNoData ==
  /\ w_pc = "returned"
  /\ w_result.none \/ w_result.data = <<>>
  /\ w_pc' = "wait"
  /\ poll_unchanged
  /\ UNCHANGED <<session_vars, cmd_vars, scan_vars, link_vars, codec_vars,
                 dec_vars, w_msg_len, w_req_len, w_dest_len, w_resp, w_result,
                 sends_after_stop>>

(* with last_response_lock: *)
WAcquire ==
  /\ w_pc = "returned"
  /\ ~w_result.none /\ w_result.data # <<>>
  /\ last_response_lock = "free"
  /\ last_response_lock' = "worker"
  /\ w_pc' = "compare"
  /\ UNCHANGED <<session_vars, cmd_vars, scan_vars, link_vars, codec_vars,
                 dec_vars, w_msg_len, w_req_len, w_dest_len, w_resp, w_result,
                 polling_stop_event, last_response, m_pc, surfaced, sends_after_stop>>

(* if last_response[0] is None or last_response[0] != current_data: print  *)
(* the response and its events (the result is surfaced)                    *)
WCompare ==
  /\ w_pc = "compare"
  /\ IF last_response = NoneList \/ last_response # w_result.data
     THEN /\ surfaced' = w_result.data
          /\ w_pc' = "update"
     ELSE /\ w_pc' = "release"
          /\ UNCHANGED surfaced
  /\ UNCHANGED <<session_vars, cmd_vars, scan_vars, link_vars, codec_vars,
                 dec_vars, w_msg_len, w_req_len, w_dest_len, w_resp, w_result,
                 polling_stop_event, last_response_lock, last_response, m_pc,
                 sends_after_stop>>

(* last_response[0] = current_data.copy() *)
WUpdate_keeps_slot ==
  /\ w_pc = "update"
  /\ last_response' = last_response
  /\ w_pc' = "release"
  /\ UNCHANGED <<session_vars, cmd_vars, scan_vars, link_vars, codec_vars,
                 dec_vars, w_msg_len, w_req_len, w_dest_len, w_resp, w_result,
                 polling_stop_event, last_response_lock, m_pc, surfaced, sends_after_stop>>

WUpdate ==
  /\ w_pc = "update"
  /\ last_response' = w_result.data
  /\ w_pc' = "release"
  /\ UNCHANGED <<session_vars, cmd_vars, scan_vars, link_vars, codec_vars,
                 dec_vars, w_msg_len, w_req_len, w_dest_len, w_resp, w_result,
                 polling_stop_event, last_response_lock, m_pc, surfaced, sends_after_stop>>

(* the end of the with block *)
WRelease ==
  /\ w_pc = "release"
  /\ last_response_lock' = "free"
  /\ w_pc' = "wait"
  /\ UNCHANGED <<session_vars, cmd_vars, scan_vars, link_vars, codec_vars,
                 dec_vars, w_msg_len, w_req_len, w_dest_len, w_resp, w_result,
                 polling_stop_event, last_response, m_pc, surfaced, sends_after_stop>>

(* if stop_event.wait(period / 1000.0): break; the wait ends at once when  *)
(* the event is set, and with the period otherwise                         *)
WWait_skips_check ==
  /\ w_pc = "wait"
  /\ w_pc' = "call"
  /\ poll_unchanged
  /\ UNCHANGED <<session_vars, cmd_vars, scan_vars, link_vars, codec_vars,
                 dec_vars, w_msg_len, w_req_len, w_dest_len, w_resp, w_result,
                 sends_after_stop>>

WWait ==
  /\ w_pc = "wait"
  /\ w_pc' = IF polling_stop_event THEN "dead" ELSE "check"
  /\ poll_unchanged
  /\ UNCHANGED <<session_vars, cmd_vars, scan_vars, link_vars, codec_vars,
                 dec_vars, w_msg_len, w_req_len, w_dest_len, w_resp, w_result,
                 sends_after_stop>>

Worker ==
  \/ WCheck
  \/ WNotConnected
  \/ WSend
  \/ WReadEcho
  \/ WReadLen
  \/ WReadBody
  \/ WNoData
  \/ WAcquire
  \/ WCompare
  \/ WUpdate
  \/ WRelease
  \/ WWait

(***************************************************************************)
(* main: the 'poll' and 'stop' commands                                    *)
(***************************************************************************)
worker_unchanged ==
  UNCHANGED <<w_msg_len, w_req_len, w_dest_len, w_resp, w_result>>

(* 'poll': polling_stop_event.clear(), then with last_response_lock: *)
PollBegin_without_lock ==
  /\ MainIdle /\ w_pc = "dead"
  /\ polling_stop_event' = FALSE
  /\ sends_after_stop' = 0
  /\ last_response_lock' = last_response_lock
  /\ m_pc' = "reset"
  /\ worker_unchanged
  /\ UNCHANGED <<session_vars, cmd_vars, scan_vars, link_vars, codec_vars,
                 dec_vars, w_pc, last_response, surfaced>>

PollBegin_no_alive_check ==
  /\ MainIdle
  /\ polling_stop_event' = FALSE
  /\ sends_after_stop' = 0
  /\ last_response_lock = "free"
  /\ last_response_lock' = "main"
  /\ m_pc' = "reset"
  /\ worker_unchanged
  /\ UNCHANGED <<session_vars, cmd_vars, scan_vars, link_vars, codec_vars,
                 dec_vars, w_pc, last_response, surfaced>>

PollBegin ==
  /\ MainIdle /\ w_pc = "dead"
  /\ polling_stop_event' = FALSE
  /\ sends_after_stop' = 0
  /\ last_response_lock = "free"
  /\ last_response_lock' = "main"
  /\ m_pc' = "reset"
  /\ worker_unchanged
  /\ UNCHANGED <<session_vars, cmd_vars, scan_vars, link_vars, codec_vars,
                 dec_vars, w_pc, last_response, surfaced>>

(* last_response[0] = None, and the end of the with block; a new polling   *)
(* run has surfaced nothing yet                                            *)
PollReset ==
  /\ m_pc = "reset"
  /\ last_response' = NoneList
  /\ last_response_lock' = "free"
  /\ surfaced' = NoneList
  /\ m_pc' = "spawn"
  /\ worker_unchanged
  /\ UNCHANGED <<session_vars, cmd_vars, scan_vars, link_vars, codec_vars,
                 dec_vars, w_pc, polling_stop_event,
                 sends_after_stop>>

(* polling_thread.start() *)
PollSpawn ==
  /\ m_pc = "spawn"
  /\ w_pc' = "check"
  /\ m_pc' = "idle"
  /\ worker_unchanged
  /\ UNCHANGED <<session_vars, cmd_vars, scan_vars, link_vars, codec_vars,
                 dec_vars, polling_stop_event, last_response_lock,
                 last_response, surfaced, sends_after_stop>>

(* 'poll' with the thread alive: "Polling is already active", continue;    *)
(* main is at its prompt again, m_pc = "refused"                           *)
PollRefused ==
  /\ MainIdle /\ w_pc # "dead"
  /\ m_pc' = "refused"
  /\ worker_unchanged
  /\ UNCHANGED <<session_vars, cmd_vars, scan_vars, link_vars, codec_vars,
                 dec_vars, w_pc, polling_stop_event, last_response_lock,
                 last_response, surfaced, sends_after_stop>>

(* 'stop' with the thread alive: polling_stop_event.set(), then join *)
StopSet ==
  /\ MainIdle /\ w_pc # "dead"
  /\ polling_stop_event' = TRUE
  /\ m_pc' = "join"
  /\ worker_unchanged
  /\ UNCHANGED <<session_vars, cmd_vars, scan_vars, link_vars, codec_vars,
                 dec_vars, w_pc, last_response_lock, last_response, surfaced, sends_after_stop>>

(* polling_thread.join(timeout=1.0) returns, the thread ended or not *)
StopJoin ==
  /\ m_pc = "join"
  /\ m_pc' = "idle"
  /\ worker_unchanged
  /\ UNCHANGED <<session_vars, cmd_vars, scan_vars, link_vars, codec_vars,
                 dec_vars, w_pc, polling_stop_event, last_response_lock,
                 last_response, surfaced, sends_after_stop>>

(***************************************************************************)
(* An event payload taken through one of the two event decoders.           *)
(***************************************************************************)
Decode159 ==
  /\ dec_stage = "input"
  /\ dec_out' = parse_header159_response(dec_in)
  /\ dec_stage' = "bill"
  /\ UNCHANGED <<session_vars, cmd_vars, scan_vars, link_vars, codec_vars,
                 dec_in, poll_vars>>

Decode229 ==
  /\ dec_stage = "input"
  /\ dec_out' = parse_header229_response(dec_in)
  /\ dec_stage' = "coin"
  /\ UNCHANGED <<session_vars, cmd_vars, scan_vars, link_vars, codec_vars,
                 dec_in, poll_vars>>

(***************************************************************************)
(* Specifications.                                                         *)
(*   Spec      : the foreground issues commands over an arbitrary link     *)
(*   SpecScan  : scans over a link with one simulated device               *)
(*   SpecOffline : connect, disconnect, scans and commands in any order,   *)
(*               with and without an open connection                       *)
(*   SpecLate  : scans over a link with one device that may answer after   *)
(*               the command has timed out                                 *)
(*   SpecConstruct : the constructor, then scans                           *)
(*   SpecCodec : frames taken through the codec alone                      *)
(*   SpecDecode : event payloads taken through the two event decoders      *)
(*   SpecPoll  : the polling thread beside the foreground's 'poll' and     *)
(*               'stop' commands, an event-reporting device on the link    *)
(*   SpecPollAgain : SpecPoll with 'poll' typed while the polling thread   *)
(*               is alive                                                  *)
(*   SpecPollCmd : the polling thread beside the foreground's 'cmd'        *)
(*   SpecOps   : connect, disconnect, 'cmd' with payloads, 'poll', 'stop'  *)
(*               and the polling thread, no device on the link             *)
(*   SpecPollFair : SpecPoll with the polling thread scheduled fairly      *)
(*   SpecPollScan : the polling thread beside a scan, nothing on the link  *)
(***************************************************************************)
CmdSteps ==
  \/ CmdNotConnected
  \/ CmdSend
  \/ CmdReadEcho
  \/ CmdReadLen
  \/ CmdReadBody

Next ==
  \/ Connect
  \/ Disconnect
  \/ CmdCall
  \/ CmdSteps
  \/ CmdDone

Spec == Init /\ [][Next]_vars

NextScan ==
  \/ Connect
  \/ ScanNotConnected
  \/ ScanStart
  \/ CmdSend
  \/ CmdReadEcho
  \/ CmdReadLen
  \/ CmdReadBody
  \/ ScanPollReturn
  \/ ScanManReturn
  \/ ScanInterrupt
  \/ ScanFinish

SpecScan == InitScan /\ [][NextScan]_vars

SpecLate == InitLate /\ [][NextScan]_vars

NextOffline ==
  \/ NextScan
  \/ Disconnect
  \/ CmdCall
  \/ CmdNotConnected
  \/ CmdDone

SpecOffline == InitOffline /\ [][NextOffline]_vars

NextConstruct ==
  \/ __init__
  \/ NextScan

SpecConstruct == InitConstruct /\ [][NextConstruct]_vars

NextCodec ==
  \/ CodecBuild
  \/ CodecSeal
  \/ CodecUnseal
  \/ CodecRemove
  \/ CodecRecalculate
  \/ CodecCrc
  \/ CodecFlip

SpecCodec == InitCodec /\ [][NextCodec]_vars

NextDecode ==
  \/ Decode159
  \/ Decode229

SpecDecode == InitDecode /\ [][NextDecode]_vars

PollCommands ==
  \/ PollBegin
  \/ PollReset
  \/ PollSpawn
  \/ StopSet
  \/ StopJoin

NextPoll ==
  \/ Connect
  \/ PollCommands
  \/ Worker

SpecPoll == InitPoll /\ [][NextPoll]_vars

NextPollAgain ==
  \/ NextPoll
  \/ PollRefused

SpecPollAgain == InitPoll /\ [][NextPollAgain]_vars

NextPollCmd ==
  \/ Connect
  \/ PollBegin
  \/ PollReset
  \/ PollSpawn
  \/ CmdCall
  \/ CmdSteps
  \/ CmdDone
  \/ Worker

SpecPollCmd == InitPollCmd /\ [][NextPollCmd]_vars

NextOps ==
  \/ Connect
  \/ Disconnect
  \/ CmdCall
  \/ CmdSteps
  \/ CmdDone
  \/ PollCommands
  \/ Worker

SpecOps == InitOps /\ [][NextOps]_vars

(* the polling thread is scheduled as long as it can run: weak fairness of *)
(* each of its steps. For WSend and WReadBody the condition is written out *)
(* (WF_vars(A) is []<>~ENABLED <<A>>_vars \/ []<><<A>>_vars): WSend is     *)
(* enabled exactly when w_pc = "call" with the port open and is the only   *)
(* step from "call" to "echo"; WReadBody is enabled exactly when           *)
(* w_pc = "body" and is the only step from "body" to "returned".           *)
WorkerLight ==
  \/ WCheck
  \/ WNotConnected
  \/ WReadEcho
  \/ WReadLen
  \/ WNoData
  \/ WAcquire
  \/ WCompare
  \/ WUpdate
  \/ WRelease
  \/ WWait

WSendStep == w_pc = "call" /\ w_pc' = "echo"

WReadBodyStep == w_pc = "body" /\ w_pc' = "returned"

SpecPollFair ==
  /\ SpecPoll
  /\ WF_vars(WorkerLight)
  /\ []<>(~(w_pc = "call" /\ ser_open)) \/ []<><<WSendStep>>_vars
  /\ []<>(w_pc # "body") \/ []<><<WReadBodyStep>>_vars

NextPollScan ==
  \/ Connect
  \/ PollBegin
  \/ PollReset
  \/ PollSpawn
  \/ ScanStart
  \/ CmdSend
  \/ CmdReadEcho
  \/ CmdReadLen
  \/ ScanPollReturn
  \/ ScanFinish
  \/ WCheck
  \/ WSend
  \/ WReadEcho
  \/ WReadLen
  \/ WNoData
  \/ WWait

SpecPollScan == InitPollScan /\ [][NextPollScan]_vars

(***************************************************************************)
(* Properties.                                                             *)
(***************************************************************************)
(* a frame of the wire layout [dest, len, x, header, payload..., y] whose  *)
(* length byte matches its length                                          *)
IsCompleteFrame(f) == Len(f) >= 5 /\ Len(f) = f[2] + 5
FrameHeader(f) == f[4]
FramePayload(f) == SubSeq(f, 5, Len(f) - 1)

(* C1: for every address, header and payload, in both integrity modes, the *)
(* sealed frame cmd builds (msg through _add_crc), given to _remove_crc in *)
(* the same mode, is reported valid and strips to                          *)
(* [address, len(payload), header, ...payload].                            *)
C1_RoundTrip ==
  t_stage \in {"unsealed", "raised"} =>
    /\ t_stage = "unsealed"
    /\ t_valid
    /\ t_frame = <<t_addr, Len(t_payload), t_header>> \o t_payload

C1_Witness ==
  /\ t_stage = "unsealed" /\ t_mode = "checksum" /\ Len(t_payload) >= 1

(* C2: when the echo is read in full and the device's complete response    *)
(* frame is read and passes its integrity check, cmd returns a result (not *)
(* None) whose header and payload are those of that frame.                 *)
C2_CompleteResponseReturned ==
  (/\ pc = "returned" /\ ser_open
   /\ echo = req
   /\ resp = reply /\ IsCompleteFrame(resp)
   /\ parsed.crc_valid)
  => /\ ~result.none
     /\ result.header = FrameHeader(resp)
     /\ result.data = FramePayload(resp)

(* the bytes read during the exchange: the echo, the length-discovery      *)
(* bytes and the body bytes                                                *)
BytesRead ==
  Len(echo) + Len(dest_len) + (IF body_read THEN Len(resp) - 2 ELSE 0)

C4_ShortLengthReadIsNoResponse ==
  (pc = "returned" /\ ser_open /\ Len(dest_len) < 2) =>
    /\ ~body_read
    /\ Len(SelectSeq(ops, LAMBDA o : o.op = "read")) = 2
    /\ result = None

C4_Witness ==
  /\ pc = "returned" /\ ser_open /\ echo = req /\ Len(dest_len) = 1

(* C5: every value cmd returns is None or a result whose header is a byte  *)
(* and whose payload is a sequence of bytes.                               *)
C5_ResultIsNoneOrComplete ==
  pc = "returned" =>
    \/ result.none
    \/ /\ result.header \in 0..255
       /\ \A k \in 1..Len(result.data) : result.data[k] \in 0..255

(* C6: if the length-discovery read gives length byte n and the body read  *)
(* returns fewer than n+3 bytes, cmd yields None.                          *)
C6_ShortBodyReadIsNoResponse ==
  (pc = "returned" /\ body_read /\ Len(resp) < dest_len[2] + 5) =>
    result = None

(* what cmd returns for the intact frame with the header and payload of    *)
(* the frame in resp                                                       *)
IntactTwin ==
  IF checksum_mode = "crc"
  THEN _add_crc("crc", <<resp[1], resp[2], resp[4]>> \o FramePayload(resp))
  ELSE _add_crc("checksum",
                <<resp[1], resp[2], resp[3], resp[4]>> \o FramePayload(resp))

ResultForIntactTwin ==
  cmd_return(msg, IntactTwin, cmd_parse(checksum_mode, IntactTwin))

(* C7: for a complete frame that fails its integrity check cmd still       *)
(* returns the frame's header and payload, and the result differs from the *)
(* one returned for the intact frame with the same header and payload.     *)
C7_IntegrityFailureIsFlagged ==
  (pc = "returned" /\ IsCompleteFrame(resp) /\ ~parsed.crc_valid) =>
    /\ ~result.none
    /\ result.header = FrameHeader(resp)
    /\ result.data = FramePayload(resp)
    /\ result # ResultForIntactTwin

(* C8: whatever the reads return, cmd does not raise, and _remove_crc does *)
(* not raise on the bytes read, so the fallback parsing never runs.        *)
C8_NeverRaises ==
  /\ pc # "raised"
  /\ ~raised
  /\ ~parsed.fallback

C8_Witness ==
  /\ pc = "returned" /\ Len(resp) >= 5 /\ Len(resp) < resp[2] + 5
  /\ ~parsed.crc_valid /\ checksum_mode = "crc"

(* C9: whenever a scan that has started sweeping ends, by exhaustion,      *)
(* cancellation or a raised failure, address, mode and read timeout are    *)
(* what they were before the scan.                                         *)
C9_ScanAlwaysRestores ==
  scan_pc \in {"done", "aborted", "raised"} =>
    /\ address = pre_scan.address
    /\ checksum_mode = pre_scan.mode
    /\ ser_timeout = pre_scan.timeout

(* the simulated link of C10: the request is looped back, and one device   *)
(* answers only frames for address 7 in checksum mode, the manufacturer    *)
(* query with printable ASCII                                              *)
IsSevenChecksumLink ==
  /\ link.kind = "sim" /\ link.echo /\ link.cut = 0
  /\ link.dev_addr = 7 /\ link.dev_mode = "checksum"
  /\ ~link.man_silent /\ _ints_to_ascii(link.man) # NoneStr

(* C10: on that link a scan that runs to completion returns exactly one    *)
(* device, address 7 in checksum mode, and afterwards the session's        *)
(* address and mode are the pre-scan ones.                                 *)
C10_ScanFindsSevenChecksum ==
  (scan_pc = "done" /\ IsSevenChecksumLink) =>
    /\ Len(scan_result) = 1
    /\ scan_result[1].address = 7
    /\ scan_result[1].mode = "checksum"
    /\ address = pre_scan.address
    /\ checksum_mode = pre_scan.mode

C10_Witness ==
  /\ scan_pc = "done" /\ IsSevenChecksumLink
  /\ pre_scan.address = 40 /\ pre_scan.mode = "crc"
  /\ addr_i = Len(all_addresses) /\ mode_i = 2

(* C11: scan appends a device only after a simple poll whose result        *)
(* carries a header, read from a frame of at least 5 bytes; a truncated    *)
(* reply never makes a device.                                             *)
C11_RecordsOnlyParsedPoll ==
  [][Len(found_devices') > Len(found_devices) =>
       (poll_seen.header # NoneVal /\ poll_seen.len >= 5)]_vars

(* the order of the sweep as the claim words it: 40, 2, 1, then 3..39 and  *)
(* 41..255                                                                 *)
ExpectedSweep ==
  <<40, 2, 1>> \o [i \in 1..37 |-> i + 2] \o [i \in 1..215 |-> i + 40]

ExpectedModes == <<"crc", "checksum">>

(* C12: while a scan sweeps, its n-th simple poll goes to the pair the     *)
(* order 40, 2, 1, 3, 4, ..., 255 (CRC before checksum) puts at place n,   *)
(* an address of 1..255; a scan that no Ctrl+C interrupted has sent 510    *)
(* polls when it ends, one for every pair.                                 *)
C12_SweepProbesEveryPairInOrder ==
  /\ {ExpectedSweep[i] : i \in 1..Len(ExpectedSweep)} = 1..255
  /\ Len(ExpectedSweep) = 255
  /\ scan_pc \in {"poll", "man"} =>
        /\ addr_i \in 1..255 /\ mode_i \in 1..2
        /\ address = ExpectedSweep[addr_i]
        /\ checksum_mode = ExpectedModes[mode_i]
        /\ polls = (2 * (addr_i - 1)) + mode_i
  /\ scan_pc \in {"done", "raised"} => polls = 510

Decoded == dec_stage \in {"bill", "coin"}

HasFiveRecords(events) ==
  /\ Len(events) = 5
  /\ \A k \in 1..5 : events[k].pair = k

(* C18 as stated: for a payload of any length, the empty one included,     *)
(* both decoders return exactly 5 records with pair indices 1..5.          *)
C18_AlwaysFiveRecords ==
  Decoded => HasFiveRecords(dec_out.events)

(* C18: for every non-empty payload both decoders return exactly 5 records *)
(* with pair indices 1..5 in order; for the empty payload both return the  *)
(* counter 0 and no record.                                                *)
C18_FiveRecordsUnlessEmpty ==
  Decoded =>
    IF dec_in = <<>>
    THEN dec_out.counter = 0 /\ dec_out.events = <<>>
    ELSE HasFiveRecords(dec_out.events)

C18_Witness ==
  /\ dec_stage = "coin" /\ Len(dec_in) = 1
  /\ HasFiveRecords(dec_out.events)

C18_WitnessEmpty ==
  /\ dec_stage = "bill" /\ dec_in = <<>> /\ dec_out.events = <<>>

(* the number of complete (resultA, resultB) pairs after the counter byte  *)
CompletePairs(payload) == (Len(payload) - 1) \div 2

(* C19: for a payload of a counter byte and k < 5 complete pairs (and      *)
(* possibly a lone resultA byte), both decoders return the first byte as   *)
(* counter, records 1..k carry the bytes of their pair, and every other    *)
(* record is (0, 0).                                                       *)
C19_MissingPairsAreZero ==
  (Decoded /\ Len(dec_in) >= 1 /\ CompletePairs(dec_in) < 5) =>
    /\ dec_out.counter = dec_in[1]
    /\ Len(dec_out.events) = 5
    /\ \A k \in 1..5 :
          IF k <= CompletePairs(dec_in)
          THEN /\ dec_out.events[k].a = dec_in[2 * k]
               /\ dec_out.events[k].b = dec_in[(2 * k) + 1]
          ELSE /\ dec_out.events[k].a = 0
               /\ dec_out.events[k].b = 0

C19_Witness ==
  /\ dec_stage = "bill" /\ Len(dec_in) = 4 /\ dec_in[4] # 0
  /\ dec_out.events[1].b = dec_in[3]
  /\ dec_out.events[2].a = 0

(* C20: in the bill decoder a record with resultA = 0 has the category     *)
(* Status for resultB in {0,1,4,5,10,11,12,14,20,21}, Reject for {2,3},    *)
(* Fatal Error for {6,7,13,15,16,19} and Fraud Attempt for any other       *)
(* resultB; (0, 0) is described as "Master inhibit active".                *)
C20_BillCategories ==
  dec_stage = "bill" =>
    \A k \in 1..Len(dec_out.events) :
      LET e == dec_out.events[k]
      IN e.a = 0 =>
           /\ e.b \in {0, 1, 4, 5, 10, 11, 12, 14, 20, 21}
                 <=> e.category = "Status"
           /\ e.b \in {2, 3} <=> e.category = "Reject"
           /\ e.b \in {6, 7, 13, 15, 16, 19} <=> e.category = "Fatal Error"
           /\ e.b \in (0..255) \ {0, 1, 2, 3, 4, 5, 6, 7, 10, 11, 12, 13, 14,
                                   15, 16, 19, 20, 21}
                 <=> e.category = "Fraud Attempt"
           /\ e.b = 0 => e.type = "Master inhibit active"

C20_Witness ==
  /\ dec_stage = "bill" /\ Len(dec_in) >= 3
  /\ dec_out.events[1].a = 0 /\ dec_out.events[1].b = 200
  /\ dec_out.events[1].category = "Fraud Attempt"
  /\ dec_out.events[5].type = "Master inhibit active"

(* an exchange has flushed and written, and has reads still to do *)
InFlight(p) == p \in {"echo", "len", "body"}

(* C13: exchanges are single-flight across the polling thread and the      *)
(* foreground: never are two exchanges both between their flush and their  *)
(* last read.                                                              *)
C13_SingleFlight ==
  ~(InFlight(pc) /\ InFlight(w_pc))

(* C14: the polling thread builds and sends no frame while a scan has the  *)
(* session's address, mode and timeout changed.                            *)
C14_NoPollSendDuringScan ==
  [][WSendStep => scan_pc \notin {"poll", "man"}]_vars

(* the places where last_response[0] is read or written *)
WorkerAtSlot == w_pc \in {"compare", "update", "release"}
MainAtSlot == m_pc = "reset"

(* C15: last_response[0] is read and written only by the holder of the     *)
(* lock, and the polling thread's compare-then-update never overlaps the   *)
(* foreground's reset.                                                     *)
C15_SlotOnlyUnderLock ==
  /\ [](WorkerAtSlot => last_response_lock = "worker")
  /\ [](MainAtSlot => last_response_lock = "main")
  /\ [](~(WorkerAtSlot /\ MainAtSlot))
  /\ [][last_response' # last_response => last_response_lock # "free"]_vars

C15_Witness ==
  /\ w_pc = "update" /\ last_response_lock = "worker"
  /\ last_response # NoneList /\ last_response # w_result.data

(* the reply the polling thread holds is one to surface: a non-empty       *)
(* payload that differs from the last one surfaced in this run, if any     *)
ShouldSurface ==
  /\ ~w_result.none /\ w_result.data # <<>>
  /\ surfaced = NoneList \/ surfaced # w_result.data

(* C16: within a polling run a reply is surfaced exactly when its payload  *)
(* is non-empty and differs from the last surfaced one (or none was        *)
(* surfaced yet); a surfaced payload differs from the one surfaced before  *)
(* it; once the update is done the stored payload is the surfaced one.     *)
C16_SurfacesExactlyChanges ==
  /\ [][/\ (w_pc = "returned" /\ w_pc' = "wait") => ~ShouldSurface
        /\ (w_pc = "returned" /\ w_pc' = "compare") => w_result.data # <<>>
        /\ (w_pc = "compare" /\ w_pc' # "compare") =>
              (w_pc' = "update" <=> ShouldSurface)
        /\ (w_pc = "compare" /\ w_pc' = "update") =>
              (surfaced' = w_result.data /\ surfaced' # surfaced)
        /\ (w_pc = "compare" /\ w_pc' # "update") => surfaced' = surfaced]_vars
  /\ [](w_pc # "update" => last_response = surfaced)

C16_Witness ==
  /\ w_pc = "release" /\ surfaced = <<2>> /\ last_response = <<2>>
  /\ w_result.data = <<2>> /\ sends_after_stop = 0

(* C17: once the stop event is set the polling thread sends at most one    *)
(* more command, and it ends.                                              *)
C17_StopEndsPolling ==
  /\ [](sends_after_stop <= 1)
  /\ (polling_stop_event /\ w_pc # "dead") ~> (w_pc = "dead")

C17_Witness ==
  /\ polling_stop_event /\ sends_after_stop = 1 /\ w_pc = "dead"

(* C21: in the bill decoder a record with resultA in 1..255 is a Credit    *)
(* for bill type resultA, sent to the cashbox, when resultB = 0, the bill  *)
(* held in escrow when resultB = 1, and Unknown for any other resultB; it  *)
(* never takes a category of the status table.                             *)
C21_BillCredits ==
  dec_stage = "bill" =>
    \A k \in 1..Len(dec_out.events) :
      LET e == dec_out.events[k]
      IN e.a \in 1..255 =>
           /\ e.b = 0 =>
                 /\ e.category = "Credit" /\ e.bill_type = e.a
                 /\ e.type = "Bill type " \o ToString(e.a)
                      \o " validated correctly and sent to cashbox/stacker"
           /\ e.b = 1 =>
                 /\ e.category = "Pending Credit" /\ e.bill_type = e.a
                 /\ e.type = "Bill type " \o ToString(e.a)
                      \o " validated correctly and held in escrow"
           /\ e.b \notin {0, 1} => e.category = "Unknown"
           /\ e.category \notin {"Status", "Reject", "Fatal Error",
                                 "Fraud Attempt"}

C21_Witness ==
  /\ dec_stage = "bill" /\ dec_in = <<3, 5, 0, 2, 0, 0, 17, 9, 9, 2, 0>>
  /\ dec_out.events[1].category = "Credit"
  /\ dec_out.events[1].bill_type = 5
  /\ dec_out.events[4].category = "Unknown"

(* C22: in the coin decoder a record with resultA > 0 is a Credit with     *)
(* coin type resultA and sorter path resultB; a record with resultA = 0 is *)
(* Status for resultB in {0,1,4,11}, Reject for {2,3} and Error otherwise, *)
(* which is not the partition of the bill decoder.                         *)
C22_CoinCreditsAndCategories ==
  /\ \E b \in 0..255 : coin_event_category(b) # bill_event_category(b)
  /\ dec_stage = "coin" =>
        \A k \in 1..Len(dec_out.events) :
          LET e == dec_out.events[k]
          IN /\ e.a > 0 =>
                  /\ e.category = "Credit"
                  /\ e.coin_type = e.a /\ e.sorter_path = e.b
             /\ e.a = 0 =>
                  /\ e.b \in {0, 1, 4, 11} <=> e.category = "Status"
                  /\ e.b \in {2, 3} <=> e.category = "Reject"
                  /\ e.b \in (0..255) \ {0, 1, 2, 3, 4, 11}
                        <=> e.category = "Error"

C22_Witness ==
  /\ dec_stage = "coin" /\ Len(dec_in) >= 5
  /\ dec_out.events[1].a = 0 /\ dec_out.events[1].b = 5
  /\ dec_out.events[1].category = "Error"
  /\ dec_out.events[2].category = "Credit"
  /\ dec_out.events[2].coin_type = 2

(* C23: in CRC mode sealing the base frame [address, len, header,          *)
(* ...payload] gives [address, len, lsb, header, ...payload, msb];         *)
(* [1, 2, 0, 31, 0] seals to [1, 2, 116, 0, 31, 0, 84], and that frame     *)
(* unseals to [1, 2, 0, 31, 0], valid.                                     *)
C23_CrcSealLayout ==
  /\ (t_stage = "sealed" /\ t_mode = "crc") =>
       LET base == <<t_addr, Len(t_payload), t_header>> \o t_payload
           c == _crc_calculate_xmodem(base)
       IN /\ t_frame = <<t_addr, Len(t_payload), c[2], t_header>>
                         \o t_payload \o <<c[1]>>
          /\ base = <<1, 2, 0, 31, 0>> => t_frame = <<1, 2, 116, 0, 31, 0, 84>>
  /\ (/\ t_stage \in {"stripped", "raised"} /\ t_mode = "crc"
      /\ t_data = <<1, 2, 116, 0, 31, 0, 84>>)
       => /\ t_stage = "stripped"
          /\ t_frame = <<1, 2, 0, 31, 0>>
          /\ t_valid

C23_Witness ==
  /\ t_stage = "sealed" /\ t_mode = "crc"
  /\ t_frame = <<1, 2, 116, 0, 31, 0, 84>>

(* C24: in checksum mode the sealed frame is [address, len, 1, header,     *)
(* ...payload, c] with c = (256 - (sum mod 256)) mod 256, the sum of all   *)
(* its bytes is 0 mod 256, and [40, 0, 1, 159] gets 56 appended.           *)
C24_ChecksumSealLayout ==
  (t_stage = "sealed" /\ t_mode = "checksum") =>
    LET body == <<t_addr, Len(t_payload), 1, t_header>> \o t_payload
        c == (256 - (SumSeq(body) % 256)) % 256
    IN /\ t_frame = body \o <<c>>
       /\ SumSeq(t_frame) % 256 = 0
       /\ body = <<40, 0, 1, 159>> => t_frame = <<40, 0, 1, 159, 56>>

C24_Witness ==
  /\ t_stage = "sealed" /\ t_mode = "checksum"
  /\ t_frame = <<40, 0, 1, 159, 56>>

(* C25: _remove_crc raises for no byte sequence, and an input shorter than *)
(* 5 bytes in CRC mode or 2 bytes in checksum mode comes back unchanged    *)
(* and not valid.                                                          *)
C25_RemoveNeverRaises ==
  t_stage \in {"stripped", "raised"} =>
    /\ t_stage = "stripped"
    /\ (\/ t_mode = "crc" /\ Len(t_data) < 5
        \/ t_mode = "checksum" /\ Len(t_data) < 2)
         => (t_frame = t_data /\ ~t_valid)

C25_Witness ==
  /\ t_stage = "stripped" /\ t_mode = "crc" /\ Len(t_data) = 4
  /\ t_frame = t_data /\ ~t_valid

C29_RecalculationReproducesReceived ==
  (t_stage = "recalculated" /\ t_valid) =>
    t_calc = IF t_mode = "crc"
             THEN <<t_data[Len(t_data)], t_data[3]>>
             ELSE <<t_data[Len(t_data)]>>

(* C28: on a link that does not loop the request back, where the device's  *)
(* complete response is the first data to arrive, cmd returns the header   *)
(* and payload of that response.                                           *)
C28_AbsentEchoStillReturnsResponse ==
  (/\ pc = "returned" /\ ser_open
   /\ ~link.echo
   /\ IsCompleteFrame(reply))
  => /\ ~result.none
     /\ result.header = FrameHeader(reply)
     /\ result.data = FramePayload(reply)

(* C27: a constructor call whose mode, lower-cased, is neither 'crc' nor   *)
(* 'checksum' raises and leaves no session; wherever a session exists,     *)
(* before, during and after a scan, its mode is one of the two.            *)
C27_ModeAlwaysValid ==
  /\ bv = "session" => checksum_mode \in {"crc", "checksum"}
  /\ (/\ bv # "none"
      /\ Spell(str_lower(init_args.checksum_mode)) \notin {"crc", "checksum"})
       => (bv = "ValueError" /\ ~ser_open /\ scan_pc = "idle" /\ pc = "idle")
  /\ (/\ bv # "none"
      /\ Spell(str_lower(init_args.checksum_mode)) \in {"crc", "checksum"})
       => bv = "session"

C27_Witness ==
  /\ bv = "session" /\ init_args.checksum_mode = <<"C", "R", "C">>
  /\ scan_pc = "poll" /\ checksum_mode = "checksum"

RECURSIVE xmodem_shift(_, _)
xmodem_shift(crc, k) ==
  IF crc < 0 \/ k = 0 THEN crc
  ELSE xmodem_shift(IF crc >= 32768
                    THEN Xor((crc * 2) % 65536, 4129)
                    ELSE (crc * 2) % 65536,
                    k - 1)

RECURSIVE xmodem_bitwise(_, _)
xmodem_bitwise(message, crc) ==
  IF crc < 0 \/ message = <<>> THEN crc
  ELSE xmodem_bitwise(Tail(message),
                      xmodem_shift(Xor(crc, Head(message) * 256), 8))

(* C31: for every byte sequence, the empty one included,                   *)
(* _crc_calculate_xmodem returns (crc >> 8, crc & 0xFF) of the bit-by-bit  *)
(* CRC-16/XMODEM; entry i of the table is the bit-by-bit CRC of byte i.    *)
C31_TableCrcIsXmodem ==
  t_stage = "crc" =>
    LET crc == xmodem_bitwise(t_data, 0)
    IN /\ t_calc = <<crc \div 256, crc % 256>>
       /\ Len(t_data) = 1 => CRC_TABLE[t_data[1] + 1] = crc
       /\ t_data = <<>> => t_calc = <<0, 0>>
       /\ t_data = <<49, 50, 51, 52, 53, 54, 55, 56, 57>> => t_calc = <<49, 195>>

C31_Witness ==
  /\ t_stage = "crc" /\ t_data = <<49, 50, 51, 52, 53, 54, 55, 56, 57>>
  /\ t_calc = <<49, 195>>

(* the sealed frame of the codec's input, and whether f is that frame with *)
(* exactly one bit of one byte inverted                                    *)
SealedInput == _add_crc(t_mode, cmd_msg(t_mode, t_addr, t_header, t_payload))

OneBitFlipped(f, g) ==
  /\ Len(f) = Len(g)
  /\ \E k \in 1..Len(g) :
        /\ Xor(f[k], g[k]) \in {1, 2, 4, 8, 16, 32, 64, 128}
        /\ \A j \in 1..Len(g) : j # k => f[j] = g[j]

(* C34: in both modes a sealed frame with any one bit of any one of its    *)
(* bytes inverted is reported not valid by _remove_crc.                    *)
C34_SingleBitFlipIsInvalid ==
  (/\ t_stage \in {"stripped", "recalculated", "raised"}
   /\ OneBitFlipped(t_data, SealedInput))
  => (t_stage # "raised" /\ ~t_valid)

C34_Witness ==
  /\ t_stage = "stripped" /\ t_mode = "crc" /\ ~t_valid
  /\ t_payload = <<31, 0>>
  /\ t_data = <<1, 2, 116, 0, 159, 0, 84>>

(* C35: in checksum mode the two tests of _remove_crc agree for every      *)
(* input of 2 bytes or more: the checksum calculated over all but the last *)
(* byte equals the last byte exactly when all bytes sum to 0 mod 256, and  *)
(* the verdict is either of them.                                          *)
C35_ChecksumTestsAgree ==
  (/\ t_stage \in {"stripped", "recalculated"} /\ t_mode = "checksum"
   /\ Len(t_data) >= 2)
  => LET received_checksum == t_data[Len(t_data)]
         body == SubSeq(t_data, 1, Len(t_data) - 1)
         matches == _checksum_calculate(body) = received_checksum
         zero_sum == (SumSeq(body) + received_checksum) % 256 = 0
     IN /\ matches <=> zero_sum
        /\ t_valid <=> matches
        /\ t_valid <=> zero_sum

C35_Witness ==
  /\ t_stage = "stripped" /\ t_mode = "checksum"
  /\ t_data = <<0, 0>> /\ t_valid

(* C32: in both modes, after a length-discovery read of 2 bytes with       *)
(* length byte n, cmd asks for exactly n + 3 more bytes in one body read;  *)
(* when all arrive the response has n + 5 bytes and cmd returns a payload  *)
(* of exactly n bytes.                                                     *)
C32_BodyReadIsLenPlusThree ==
  (pc = "returned" /\ ser_open /\ Len(dest_len) = 2) =>
    LET n == dest_len[2]
    IN /\ body_read
       /\ ops[Len(ops)] = [op |-> "read", n |-> n + 3]
       /\ Len(resp) = n + 5 =>
            (~result.none /\ Len(result.data) = n)

(* the place of each step of cmd in the order of its link operations *)
StepRank ==
  [call |-> 1, echo |-> 2, len |-> 3, body |-> 4, returned |-> 5, raised |-> 5,
   idle |-> 0]

(* the link operations an exchange has made once it returned *)
ExchangeOps ==
  <<[op |-> "flush", n |-> 0], [op |-> "write", n |-> Len(req)],
    [op |-> "read", n |-> Len(req)], [op |-> "read", n |-> 2]>>
    \o (IF Len(dest_len) = 2
        THEN <<[op |-> "read", n |-> dest_len[2] + 3]>> ELSE <<>>)

(* C33: an exchange on an open connection flushes, writes the sealed frame *)
(* once, reads len(sealed frame) bytes of echo, reads 2 bytes, and reads a *)
(* body exactly when those were 2 bytes, in this order, then returns:      *)
(* every step moves cmd forward and none is taken twice.                   *)
C33_LinkOperationsInOrder ==
  /\ []((pc = "returned" /\ ser_open) =>
          /\ req = _add_crc(checksum_mode, msg)
          /\ ops = ExchangeOps
          /\ body_read <=> Len(dest_len) = 2)
  /\ []((pc \in {"echo", "len", "body"} /\ ser_open) =>
          /\ ops = SubSeq(ExchangeOps, 1, StepRank[pc])
          /\ pc = "body" => Len(dest_len) = 2)
  /\ [][(pc \in {"call", "echo", "len", "body"} /\ pc' # pc)
          => StepRank[pc'] > StepRank[pc]]_vars

C33_Witness ==
  /\ pc = "returned" /\ ser_open /\ Len(ops) = 5 /\ body_read
  /\ ops[5] = [op |-> "read", n |-> 4]

(* whether every code of a list is 0 or printable ASCII *)
Printable(l) == \A k \in 1..Len(l) : l[k] = 0 \/ (32 <= l[k] /\ l[k] <= 126)

(* C36: an answered simple poll is followed by one manufacturer query      *)
(* (header 246) to the same address in the same mode, and when that query  *)
(* returns the device is recorded and the sweep goes on; a reply that is   *)
(* missing, empty or not printable ASCII is recorded as "Unknown".         *)
C36_ManufacturerQueryAlwaysRecords ==
  /\ [][(scan_pc = "poll" /\ scan_pc' = "man") =>
          /\ header' = 246 /\ pc' = "call"
          /\ address' = address /\ checksum_mode' = checksum_mode]_vars
  /\ [][(scan_pc = "man" /\ pc = "returned" /\ scan_pc' # "aborted") =>
          /\ scan_pc' \in {"poll", "done"}
          /\ Len(found_devices') = Len(found_devices) + 1
          /\ LET d == found_devices'[Len(found_devices')]
             IN /\ d.address = address /\ d.mode = checksum_mode
                /\ (result.none \/ result.data = <<>> \/ ~Printable(result.data))
                     => d.manufacturer = Unknown]_vars

(* the pair (address, mode) the device on the link answers *)
DeviceAnswers(a, m) == a = link.dev_addr /\ m = link.dev_mode

(* C37: every result cmd returns is read from the bytes the device sent in *)
(* reply to that same command, so a reply that arrives after its command   *)
(* timed out and after the next command's flush is never the result of a   *)
(* later command, and scan records a device only under a pair the device   *)
(* answered                                                                *)
C37_ResultIsReplyToSameCommand ==
  /\ [](  (pc = "returned" /\ ~result.none) => resp = reply)
  /\ [][(Len(found_devices') > Len(found_devices)) =>
          LET d == found_devices'[Len(found_devices')]
          IN DeviceAnswers(d.address, d.mode)]_vars

(* C38: with no open serial connection, before any connect or after a      *)
(* disconnect, cmd and scan return None at once: no flush, no write and no *)
(* read, and address, mode and timeout stay as they were                   *)
C38_NotConnectedReturnsNone ==
  /\ []((pc = "returned" /\ ~ser_open) => (result.none /\ ops = <<>>))
  /\ [][(pc = "call" /\ ~ser_open) =>
          /\ pc' = "returned" /\ result'.none /\ ops' = <<>>
          /\ wire' = wire
          /\ <<address, checksum_mode, ser_timeout, ser_open>>' =
               <<address, checksum_mode, ser_timeout, ser_open>>]_vars
  /\ [][(scan_pc = "idle" /\ scan_pc' # "idle" /\ ~ser_open) =>
          /\ scan_pc' = "refused" /\ polls' = polls
          /\ pc' = "idle" /\ ops' = ops /\ wire' = wire
          /\ <<address, checksum_mode, ser_timeout, ser_open>>' =
               <<address, checksum_mode, ser_timeout, ser_open>>]_vars

(* cmd has returned None on a session that was disconnected after a        *)
(* command the device had answered                                         *)
C38_Witness ==
  /\ pc = "returned" /\ caller = "main" /\ ~ser_open /\ reply # <<>>
  /\ result.none /\ ops = <<>>

(* C39: at most one polling thread is alive at any time, whatever 'poll'   *)
(* and 'stop' are typed and whether or not stop's join outlasts the        *)
(* thread: 'poll' with a thread alive starts none, leaves the stop event   *)
(* as it is and does not reset the last payload; a thread is started only  *)
(* when the one before it has ended                                        *)
C39_OnePollWorker ==
  /\ []((m_pc \in {"reset", "spawn"}) => (w_pc = "dead"))
  /\ [][(m_pc = "spawn" /\ m_pc' # "spawn") =>
          (w_pc = "dead" /\ w_pc' = "check")]_vars
  /\ [][(w_pc = "dead") => (w_pc' = "dead" \/ m_pc = "spawn")]_vars
  /\ [][(m_pc \in {"idle", "refused"} /\ w_pc # "dead" /\ m_pc' # m_pc) =>
          /\ m_pc' \in {"refused", "join"} /\ w_pc' = w_pc
          /\ last_response' = last_response
          /\ (m_pc' = "refused") => (polling_stop_event' = polling_stop_event)]_vars

(* 'poll' is refused after a 'stop' whose join returned with the thread    *)
(* still alive and a payload on record                                     *)
C39_Witness ==
  /\ m_pc = "refused" /\ w_pc # "dead" /\ polling_stop_event
  /\ last_response # NoneList
====
